---- MODULE Spec2Model ----
(***************************************************************************)
(* DealUpdates: the ingest pipeline (row merge, canonical note history,    *)
(* summary reuse and batching), the summarize-notes edge function and the  *)
(* snapshot diff, modelled from the JavaScript/TypeScript sources.         *)
(*                                                                         *)
(* Strings are sequences of UTF-16 code units (<<97>> is "a"), so that     *)
(* trim, lower-casing, sorting and joining are computed as the code does.  *)
(***************************************************************************)
EXTENDS Integers, Sequences, FiniteSets, TLC

\* ------------------------------------------------------------------------
\* Bounds of the model
\* ------------------------------------------------------------------------
MaxRows == 3

\* ------------------------------------------------------------------------
\* String helpers (String.prototype.trim / toLowerCase / Array.prototype.sort)
\* ------------------------------------------------------------------------
EmptyStr == << >>

\* the characters \s matches and trim() strips, among those the model uses
IsWs(c) == c \in {9, 10, 13, 32}

RECURSIVE TrimLeft(_)
TrimLeft(s) ==
    IF s = << >> THEN << >>
    ELSE IF IsWs(Head(s)) THEN TrimLeft(Tail(s)) ELSE s

RECURSIVE TrimRight(_)
TrimRight(s) ==
    IF s = << >> THEN << >>
    ELSE IF IsWs(s[Len(s)]) THEN TrimRight(SubSeq(s, 1, Len(s) - 1)) ELSE s

Trim(s) == TrimRight(TrimLeft(s))

ToLowerChar(c) == IF c >= 65 /\ c <= 90 THEN c + 32 ELSE c

ToLower(s) == [i \in 1..Len(s) |-> ToLowerChar(s[i])]

\* s.replace(/\s+/g, ' '): every maximal run of whitespace becomes one space
CollapseWs(s) ==
    LET first == SelectSeq([i \in 1..Len(s) |-> i],
                           LAMBDA i : ~IsWs(s[i]) \/ i = 1 \/ ~IsWs(s[i - 1]))
    IN [k \in 1..Len(first) |-> IF IsWs(s[first[k]]) THEN 32 ELSE s[first[k]]]

\* code-unit order, the order of Array.prototype.sort() without a comparator
RECURSIVE LexLess(_, _)
LexLess(a, b) ==
    IF b = << >> THEN FALSE
    ELSE IF a = << >> THEN TRUE
    ELSE IF Head(a) # Head(b) THEN Head(a) < Head(b)
    ELSE LexLess(Tail(a), Tail(b))

MinStr(S) == CHOOSE x \in S : \A y \in S : y = x \/ LexLess(x, y)

RECURSIVE SortStrings(_)
SortStrings(S) ==
    IF S = {} THEN << >>
    ELSE LET m == MinStr(S) IN <<m>> \o SortStrings(S \ {m})

RECURSIVE JoinStrings(_, _)
JoinStrings(ss, sep) ==
    IF ss = << >> THEN << >>
    ELSE IF Len(ss) = 1 THEN ss[1]
    ELSE ss[1] \o sep \o JoinStrings(Tail(ss), sep)

Range(f) == {f[i] : i \in DOMAIN f}

\* ------------------------------------------------------------------------
\* domain.js: identity, hashing, canonical notes
\* ------------------------------------------------------------------------
normalizeString(s) == CollapseWs(ToLower(Trim(s)))

\* mutant: the key is built from the texts as written
makeDealKey_AsWritten(dealName, dealOwner) ==
    dealName \o <<124, 124>> \o dealOwner

\* "||" is <<124, 124>>
makeDealKey(dealName, dealOwner) ==
    normalizeString(dealName) \o <<124, 124>> \o normalizeString(dealOwner)

\* SHA-256 is modelled as an injective tagging of its argument; a digest
\* is never the empty string.
sha256Hex(str) == <<35>> \o str

\* "\n---\n"
NOTE_SEPARATOR == <<10, 45, 45, 45, 10>>

\* mutant: the notes are not de-duplicated before they are joined
RECURSIVE SortedWithRepeats(_)
SortedWithRepeats(ns) ==
    IF ns = << >> THEN << >>
    ELSE LET m == MinStr(Range(ns))
             i == CHOOSE k \in 1..Len(ns) : ns[k] = m
             rest == [k \in 1..(Len(ns) - 1) |-> IF k < i THEN ns[k] ELSE ns[k + 1]]
         IN <<m>> \o SortedWithRepeats(rest)

UniqueSortedNotes_KeepRepeats(rawNotes) ==
    SortedWithRepeats(SelectSeq([i \in 1..Len(rawNotes) |-> Trim(rawNotes[i])],
                                LAMBDA n : n # << >>))

\* [...new Set(rawNotes.map(n => n.trim()).filter(Boolean))].sort()
UniqueSortedNotes(rawNotes) ==
    SortStrings({Trim(rawNotes[i]) : i \in 1..Len(rawNotes)} \ {<< >>})

buildNotesCanonical(rawNotes) ==
    LET unique == UniqueSortedNotes(rawNotes)
    IN [canonical |-> JoinStrings(unique, NOTE_SEPARATOR), count |-> Len(unique)]

\* ------------------------------------------------------------------------
\* generateFallbackSummary: first sentence (or first 150 characters) of
\* each distinct note, joined with " | ", the whole cut to 500 characters
\* ------------------------------------------------------------------------
SENTENCE_MAX == 150
SENTENCE_CUT == 147
SUMMARY_MAX == 500
SUMMARY_CUT == 497

Ellipsis == <<46, 46, 46>>

IsLineTerminator(c) == c \in {10, 13}

\* /^(.+?[.!?])\s/ : the shortest prefix of at least two characters, free
\* of line terminators, that ends in . ! or ? and is followed by whitespace
SentenceEnds(note) ==
    {k \in 2..(Len(note) - 1) :
        /\ note[k] \in {46, 33, 63}
        /\ IsWs(note[k + 1])
        /\ \A j \in 1..k : ~IsLineTerminator(note[j])}

Min(S) == CHOOSE x \in S : \A y \in S : x <= y

FirstSentence(note) ==
    LET ends == SentenceEnds(note)
    IN IF ends # {} /\ Min(ends) <= SENTENCE_MAX
       THEN SubSeq(note, 1, Min(ends))
       ELSE IF Len(note) > SENTENCE_MAX
            THEN SubSeq(note, 1, SENTENCE_CUT) \o Ellipsis
            ELSE note

\* [...new Set(notes)]: first occurrences, in order
RECURSIVE DistinctInOrder(_)
DistinctInOrder(s) ==
    IF s = << >> THEN << >>
    ELSE LET front == DistinctInOrder(SubSeq(s, 1, Len(s) - 1))
             last == s[Len(s)]
         IN IF last \in Range(front) THEN front ELSE Append(front, last)

generateFallbackSummary(notes) ==
    LET unique == DistinctInOrder(notes)
        sentences == [i \in 1..Len(unique) |-> FirstSentence(unique[i])]
        summary == JoinStrings(sentences, <<32, 124, 32>>)
    IN IF unique = << >> THEN EmptyStr
       ELSE IF Len(summary) > SUMMARY_MAX
            THEN SubSeq(summary, 1, SUMMARY_CUT) \o Ellipsis
            ELSE summary

\* ------------------------------------------------------------------------
\* Rows as processRow leaves them (validated, home currency only)
\* ------------------------------------------------------------------------
\* parseDate returns null for a missing or unparsable date; dates are day
\* numbers otherwise
NullDate == 0

ModifiedDates == {NullDate, 1, 2}

\* " ", " n", "m"
NoteContents == { <<32>>, <<32, 110>>, <<109>> }

\* (dealName, stage): "A"/"p" and "a"/"q" share a deal key, "b"/"p" does not
RowShapes == { <<(<<65>>), (<<112>>)>>, <<(<<97>>), (<<113>>)>>, <<(<<98>>), (<<112>>)>> }

OwnerX == <<120>>

ProcessedRow(name, owner, stage, acv, modified, note) ==
    [dealName |-> name, dealOwner |-> owner, stage |-> stage, acv |-> acv,
     modifiedDate |-> modified, noteContent |-> note,
     dealKey |-> makeDealKey(name, owner)]

RowValues ==
    {ProcessedRow(sh[1], OwnerX, sh[2], 1000, d, n) :
        sh \in RowShapes, d \in ModifiedDates, n \in NoteContents}

SeqsUpTo(S, n) == UNION {[1..k -> S] : k \in 0..n}

\* ------------------------------------------------------------------------
\* deduplicateDeals, the merge loop
\* ------------------------------------------------------------------------
\* position of key in the insertion-ordered Map, 0 when absent
IndexOfKey(dm, key) ==
    IF \E i \in 1..Len(dm) : dm[i].dealKey = key
    THEN CHOOSE i \in 1..Len(dm) : dm[i].dealKey = key
    ELSE 0

\* mutant: a later-or-equal date replaces the kept row (>= for >)
ReplacesExisting_OnTie(deal, existing) ==
    IF deal.modifiedDate # NullDate /\ existing.modifiedDate # NullDate
    THEN deal.modifiedDate >= existing.modifiedDate
    ELSE deal.modifiedDate # NullDate

\* if (deal.modifiedDate && existing.modifiedDate) { if (deal > existing) set }
\* else if (deal.modifiedDate) set
ReplacesExisting(deal, existing) ==
    IF deal.modifiedDate # NullDate /\ existing.modifiedDate # NullDate
    THEN deal.modifiedDate > existing.modifiedDate
    ELSE deal.modifiedDate # NullDate

\* mutant: a second row of a key is appended instead of merged
DealMapSet_Append(dm, deal) == Append(dm, deal)

\* the dealMap part of one loop iteration; Map.set keeps a key's position
DealMapSet(dm, deal) ==
    LET i == IndexOfKey(dm, deal.dealKey)
    IN IF i = 0 THEN Append(dm, deal)
       ELSE IF ReplacesExisting(deal, dm[i]) THEN [dm EXCEPT ![i] = deal]
       ELSE dm

\* mutant: only the notes of the row that is kept are collected
NotesMapPush_WinnerOnly(nm, dm, deal) ==
    LET key == deal.dealKey
        i == IndexOfKey(dm, key)
        mine == IF deal.noteContent # << >> /\ Trim(deal.noteContent) # << >>
                THEN <<Trim(deal.noteContent)>> ELSE << >>
    IN IF i = 0 THEN [k \in DOMAIN nm \cup {key} |-> IF k = key THEN mine ELSE nm[k]]
       ELSE IF ReplacesExisting(deal, dm[i]) THEN [nm EXCEPT ![key] = mine]
       ELSE nm

\* the notesMap part of one loop iteration
NotesMapPush(nm, dm, deal) ==
    LET key == deal.dealKey
        base == IF key \in DOMAIN nm THEN nm[key] ELSE << >>
        notes == IF deal.noteContent # << >> /\ Trim(deal.noteContent) # << >>
                 THEN Append(base, Trim(deal.noteContent))
                 ELSE base
    IN [k \in DOMAIN nm \cup {key} |-> IF k = key THEN notes ELSE nm[k]]

EmptyMap == [k \in {} |-> << >>]

\* buildNotesCanonical and sha256Hex attached to a merged deal; the summary
\* fields are not set yet
AttachCanonical(deal, nm) ==
    LET rawNotes == IF deal.dealKey \in DOMAIN nm THEN nm[deal.dealKey] ELSE << >>
        c == buildNotesCanonical(rawNotes)
    IN [dealName |-> deal.dealName, dealOwner |-> deal.dealOwner,
        stage |-> deal.stage, acv |-> deal.acv,
        modifiedDate |-> deal.modifiedDate, noteContent |-> deal.noteContent,
        dealKey |-> deal.dealKey,
        notesCanonical |-> c.canonical, notesCount |-> c.count,
        notesHash |-> sha256Hex(c.canonical),
        notesSummary |-> EmptyStr,
        summaryHash |-> EmptyStr]

\* the Node pipeline has no summarization service: every deal gets the
\* fallback summary of its notes
AttachNotes(deal, nm) ==
    LET d == AttachCanonical(deal, nm)
        rawNotes == IF deal.dealKey \in DOMAIN nm THEN nm[deal.dealKey] ELSE << >>
    IN [d EXCEPT !.notesSummary = generateFallbackSummary(rawNotes),
                 !.summaryHash = d.notesHash]

\* deduplicateDeals: its input, loop position, the two Maps, its result
VARIABLES deals, idx, dealMap, notesMap, result, pc

\* app state and the summary stage of deduplicateDeals
VARIABLES allDeals, supabaseClient, dealsNeedingSummary, batchI,
          allAiSummaries, aiCalls, inflight

\* summarize-notes edge function: the deal_summary_cache table, the last
\* response, and the history of what the model was asked
VARIABLES cache, edgeResponse, summarized, recomputed

\* diffDeals: the baseline snapshot, the newer snapshot (tagged in place),
\* the returned counts, and whether the diff has run
VARIABLES oldDeals, newDeals, changesSummary, diffPc

\* row normalisation: the raw row, the deal kept for it (none or one), and
\* what became of the row
VARIABLES rawRow, rowDeal, rowPc

rowVars == <<rawRow, rowDeal, rowPc>>

\* no row has been read
RowIdle ==
    /\ rawRow = << >>
    /\ rowDeal = << >>
    /\ rowPc = "idle"

\* CSV import: the text, the tokenizer's position and accumulators, what
\* parseCSV returned, and the app state an import touches
VARIABLES csvText, tokI, tokRows, currentRow, currentField, inQuotes,
          parsePc, parseError, rawRows, workerDeals,
          filteredDeals, localStorage, remoteStore, alertMsg, isOnline

parseVars == <<csvText, tokI, tokRows, currentRow, currentField, inQuotes,
               parsePc, parseError, rawRows, workerDeals,
               filteredDeals, localStorage, remoteStore, alertMsg, isOnline>>

\* no file has been chosen
ParseIdle ==
    /\ csvText = << >>
    /\ tokI = 1
    /\ tokRows = << >>
    /\ currentRow = << >>
    /\ currentField = << >>
    /\ inQuotes = FALSE
    /\ parsePc = "idle"
    /\ parseError = << >>
    /\ rawRows = << >>
    /\ workerDeals = << >>
    /\ filteredDeals = << >>
    /\ localStorage = << >>
    /\ remoteStore = << >>
    /\ alertMsg = << >>
    /\ isOnline = FALSE

\* health scoring: the snapshot, the deal scored, the configuration, the
\* context built from the snapshot and the result of computeDealHealthScore
VARIABLES scoreDeals, scoredDeal, scoreConfig, scoreContext, scoreResult, scorePc

scoreVars == <<scoreDeals, scoredDeal, scoreConfig, scoreContext, scoreResult, scorePc>>

\* nothing is being scored
ScoreIdle ==
    /\ scoreDeals = << >>
    /\ scoredDeal = << >>
    /\ scoreConfig = << >>
    /\ scoreContext = << >>
    /\ scoreResult = << >>
    /\ scorePc = "idle"

\* loading from persistence: today's date, the item in local storage, the
\* rows of the selected upload, the deals the last load returned, the date
\* it read from the clock, and where it loaded from
VARIABLES today, storageData, uploadRows, loadedDeals, loadedOn, loadedFrom

loadVars == <<today, storageData, uploadRows, loadedDeals, loadedOn, loadedFrom>>

\* nothing has been loaded
LoadIdle ==
    /\ today = 0
    /\ storageData = << >>
    /\ uploadRows = << >>
    /\ loadedDeals = << >>
    /\ loadedOn = 0
    /\ loadedFrom = "none"


\* runs of handleDateSelection and processCSVData in start order, the
\* current AbortController (the index of the run that made it, 0 for none),
\* the controllers aborted so far, and the loading overlay
VARIABLES runs, dateSelectionController, abortedSignals, loadingOverlay

runVars == <<runs, dateSelectionController, abortedSignals, loadingOverlay>>

\* no selection and no import has started
RunIdle ==
    /\ runs = << >>
    /\ dateSelectionController = 0
    /\ abortedSignals = {}
    /\ loadingOverlay = "hidden"


\* importing the same text twice: the text, the reference date, the deals
\* on screen before the first import, and what each import produced
VARIABLES pipelineText, referenceDay, onScreen, firstRun, secondRun, twicePc

twiceVars == <<pipelineText, referenceDay, onScreen, firstRun, secondRun, twicePc>>

\* no text has been imported
TwiceIdle ==
    /\ pipelineText = << >>
    /\ referenceDay = 0
    /\ onScreen = << >>
    /\ firstRun = << >>
    /\ secondRun = << >>
    /\ twicePc = "idle"


\* the ingest worker and runIngestWorker: where the worker's handler is,
\* the rows it parsed and how many it has processed, the messages posted
\* and not yet handled, every message posted so far, the message types the
\* main thread has handled, the promise, how often it was settled, and
\* whether the worker was terminated
VARIABLES ingestPc, ingestRows, ingestI, outbox, posted, handled,
          promiseState, settleCount, workerTerminated, activeWorker

ingestVars == <<ingestPc, ingestRows, ingestI, outbox, posted, handled,
                promiseState, settleCount, workerTerminated, activeWorker>>

\* no worker has been started
IngestIdle ==
    /\ ingestPc = "idle"
    /\ ingestRows = 0
    /\ ingestI = 0
    /\ outbox = << >>
    /\ posted = << >>
    /\ handled = << >>
    /\ promiseState = "pending"
    /\ settleCount = 0
    /\ workerTerminated = FALSE
    /\ activeWorker = FALSE


\* deal identity: the deal name and owner of two rows, the key computed for
\* each, and how far the computation is
VARIABLES keyRowA, keyRowB, keyA, keyB, keyPc

keyVars == <<keyRowA, keyRowB, keyA, keyB, keyPc>>

\* no key is being computed
KeyIdle ==
    /\ keyRowA = << >>
    /\ keyRowB = << >>
    /\ keyA = << >>
    /\ keyB = << >>
    /\ keyPc = "idle"


mergeVars == <<deals, idx, dealMap, notesMap, result, pc>>

diffVars == <<oldDeals, newDeals, changesSummary, diffPc>>

NoCounts == [newCount |-> 0, updatedCount |-> 0, removedCount |-> 0, unchangedCount |-> 0]

\* no diff has been set up
DiffIdle ==
    /\ oldDeals = << >>
    /\ newDeals = << >>
    /\ changesSummary = NoCounts
    /\ diffPc = "idle"

edgeVars == <<cache, edgeResponse, summarized, recomputed>>

NoCache == [p \in {} |-> EmptyStr]

\* the edge function has served no request
EdgeIdle ==
    /\ cache = NoCache
    /\ edgeResponse = [status |-> 0, summaries |-> << >>]
    /\ summarized = {}
    /\ recomputed = {}

summaryVars == <<allDeals, supabaseClient, dealsNeedingSummary, batchI,
                 allAiSummaries, aiCalls, inflight>>

NoSummaries == [n \in {} |-> EmptyStr]

\* the summary stage before an import has started
SummaryIdle ==
    /\ dealsNeedingSummary = << >>
    /\ batchI = 0
    /\ allAiSummaries = NoSummaries
    /\ aiCalls = << >>
    /\ inflight = {}

\* no import is under way
MergeIdle ==
    /\ deals = << >>
    /\ idx = 1
    /\ dealMap = << >>
    /\ notesMap = EmptyMap
    /\ result = << >>
    /\ pc = "idle"
    /\ allDeals = << >>
    /\ supabaseClient = TRUE

MergeInit ==
    /\ deals \in SeqsUpTo(RowValues, MaxRows)
    /\ idx = 1
    /\ dealMap = << >>
    /\ notesMap = EmptyMap
    /\ result = << >>
    /\ pc = "loop"
    /\ allDeals = << >>
    /\ supabaseClient = FALSE
    /\ SummaryIdle
    /\ EdgeIdle
    /\ DiffIdle
    /\ RowIdle
    /\ ParseIdle
    /\ ScoreIdle
    /\ LoadIdle
    /\ RunIdle
    /\ TwiceIdle
    /\ IngestIdle
    /\ KeyIdle

\* one iteration of `for (const deal of deals)`
MergeRow ==
    /\ pc = "loop"
    /\ idx <= Len(deals)
    /\ notesMap' = NotesMapPush(notesMap, dealMap, deals[idx])
    /\ dealMap' = DealMapSet(dealMap, deals[idx])
    /\ idx' = idx + 1
    /\ UNCHANGED <<deals, result, pc>>
    /\ UNCHANGED <<summaryVars, edgeVars, diffVars, rowVars, parseVars, scoreVars, loadVars, runVars, twiceVars, ingestVars, keyVars>>

\* Array.from(dealMap.values()) and the loop attaching the note history
BuildNotes ==
    /\ pc = "loop"
    /\ idx > Len(deals)
    /\ result' = [i \in 1..Len(dealMap) |-> AttachNotes(dealMap[i], notesMap)]
    /\ pc' = "done"
    /\ UNCHANGED <<deals, idx, dealMap, notesMap>>
    /\ UNCHANGED <<summaryVars, edgeVars, diffVars, rowVars, parseVars, scoreVars, loadVars, runVars, twiceVars, ingestVars, keyVars>>

\* ------------------------------------------------------------------------
\* deduplicateDeals, the summary stage: reuse by hash, batches, fallback
\* ------------------------------------------------------------------------
BATCH_SIZE == 10

\* rows fed to the imports of the summary stage: the same deal name "a"
\* under owners "x" and "y" (two deal keys); a row of "x" has the note
\* "k. z" or none, a row of "y" the note "m" or none
OwnerY == <<121>>

SummaryRows ==
    {ProcessedRow(<<97>>, OwnerX, <<112>>, 1000, NullDate, n) :
        n \in { << >>, <<107, 46, 32, 122>> }}
    \cup {ProcessedRow(<<97>>, OwnerY, <<112>>, 1000, NullDate, n) :
        n \in { << >>, <<109>> }}

\* a large import: deals "da", "db", ... with the note "m" each
BulkRows(k) ==
    [i \in 1..k |-> ProcessedRow(<<100, 96 + i>>, OwnerX, <<112>>, 1000, NullDate, <<109>>)]

MaxSummaryRows == 2
MaxBulk == 11
MaxMissing == 1

ImportInputs ==
    SeqsUpTo(SummaryRows, MaxSummaryRows)
        \cup {BulkRows(k) : k \in {BATCH_SIZE, MaxBulk}}

\* the merge loop run to its end
RECURSIVE MergeAll(_, _, _)
MergeAll(rows, dm, nm) ==
    IF rows = << >> THEN [dealMap |-> dm, notesMap |-> nm]
    ELSE MergeAll(Tail(rows), DealMapSet(dm, Head(rows)),
                  NotesMapPush(nm, dm, Head(rows)))

\* oldDealMap.get(key): the last deal of the loaded snapshot with that key
OldDealIndex(old, key) ==
    LET hits == {i \in 1..Len(old) : old[i].dealKey = key}
    IN IF hits = {} THEN 0 ELSE CHOOSE i \in hits : \A j \in hits : j <= i

\* mutant: the stored summary is reused whatever the hash
ReusesSummary_AnyHash(old, deal) ==
    LET i == OldDealIndex(old, deal.dealKey)
    IN /\ i # 0
       /\ old[i].notesSummary # EmptyStr

\* oldSummary && oldHash && oldHash === deal.notesHash
ReusesSummary(old, deal) ==
    LET i == OldDealIndex(old, deal.dealKey)
    IN /\ i # 0
       /\ old[i].notesSummary # EmptyStr
       /\ old[i].summaryHash # EmptyStr
       /\ old[i].summaryHash = deal.notesHash

ReuseFrom(old, deal) ==
    LET o == old[OldDealIndex(old, deal.dealKey)]
    IN [deal EXCEPT !.notesSummary = o.notesSummary, !.summaryHash = o.summaryHash]

\* the deals of the result that are not reused, as positions in the result
NeedingSummary(old, res) ==
    SelectSeq([i \in 1..Len(res) |-> i], LAMBDA i : ~ReusesSummary(old, res[i]))

\* mutant: the batches overlap by one deal
NextBatchStart_Overlap(i) == i + BATCH_SIZE - 1

\* i += BATCH_SIZE
NextBatchStart(i) == i + BATCH_SIZE

\* mutant: a batch is not capped
BatchSlice_Uncapped(needing, i) == SubSeq(needing, i + 1, Len(needing))

\* dealsNeedingSummary.slice(i, i + BATCH_SIZE)
BatchSlice(needing, i) ==
    SubSeq(needing, i + 1, IF i + BATCH_SIZE < Len(needing) THEN i + BATCH_SIZE ELSE Len(needing))

\* generateAISummaries: the request body, deals without notes left out
Payload(batch, res, nm) ==
    LET withNotes == SelectSeq(batch, LAMBDA i : Len(nm[res[i].dealKey]) > 0)
    IN [j \in 1..Len(withNotes) |->
           [dealName |-> res[withNotes[j]].dealName,
            notes |-> DistinctInOrder(nm[res[withNotes[j]].dealKey])]]

PayloadNames(payload) == {payload[j].dealName : j \in 1..Len(payload)}

\* the text the model writes for one entry of the request: "*" name ":" notes
AiSummary(entry) == <<42>> \o entry.dealName \o <<58>> \o JoinStrings(entry.notes, <<59>>)

\* the service's answers to a request: a summary for every name but at
\* most MaxMissing of them, which are left out or come back empty; a name
\* sent twice (two owners) is answered from its first or its last entry
EntryFor(payload, name, pickLast) ==
    LET hits == {j \in 1..Len(payload) : payload[j].dealName = name}
    IN payload[CHOOSE j \in hits : \A h \in hits : IF pickLast THEN h <= j ELSE j <= h]

\* the subsets of S of at most k elements
RECURSIVE SubsetsUpTo(_, _)
SubsetsUpTo(S, k) ==
    IF k = 0 THEN {{}}
    ELSE LET smaller == SubsetsUpTo(S, k - 1)
         IN smaller \cup {B \cup {x} : B \in smaller, x \in S}

ResponseMaps(payload) ==
    LET names == PayloadNames(payload)
        bads == SubsetsUpTo(names, MaxMissing)
    IN {[n \in (IF asEmpty THEN names ELSE names \ B) |->
            IF n \in B THEN EmptyStr ELSE AiSummary(EntryFor(payload, n, pickLast))] :
        B \in bads, asEmpty \in BOOLEAN, pickLast \in BOOLEAN}

\* what functions.invoke can do: resolve with summaries, resolve with an
\* error, or throw
InvokeOutcomes(payload) ==
    {[kind |-> "summaries", summaries |-> m] : m \in ResponseMaps(payload)}
        \cup {[kind |-> k, summaries |-> NoSummaries] : k \in {"error", "throw"}}

\* mutant: an exception of the call is not caught and leaves deduplicateDeals
ReturnedSummaries_Rethrow(outcome) ==
    IF outcome.kind = "error" THEN [ok |-> FALSE, thrown |-> FALSE, summaries |-> NoSummaries]
    ELSE IF outcome.kind = "throw" THEN [ok |-> FALSE, thrown |-> TRUE, summaries |-> NoSummaries]
    ELSE [ok |-> TRUE, thrown |-> FALSE, summaries |-> outcome.summaries]

\* what generateAISummaries returns for an outcome: null unless summaries came
ReturnedSummaries(outcome) ==
    IF outcome.kind \in {"error", "throw"}
    THEN [ok |-> FALSE, thrown |-> FALSE, summaries |-> NoSummaries]
    ELSE [ok |-> TRUE, thrown |-> FALSE, summaries |-> outcome.summaries]

\* Object.assign(allAiSummaries, batchSummaries)
ObjectAssign(target, source) ==
    [n \in DOMAIN target \cup DOMAIN source |->
        IF n \in DOMAIN source THEN source[n] ELSE target[n]]

\* mutant: a deal without a summary from the service keeps no summary
SummaryFor_NoFallback(deal, all, nm) ==
    IF deal.dealName \in DOMAIN all /\ all[deal.dealName] # EmptyStr
    THEN all[deal.dealName]
    ELSE EmptyStr

\* allAiSummaries[deal.dealName] || generateFallbackSummary(allNotes)
SummaryFor(deal, all, nm) ==
    IF deal.dealName \in DOMAIN all /\ all[deal.dealName] # EmptyStr
    THEN all[deal.dealName]
    ELSE generateFallbackSummary(nm[deal.dealKey])

SummaryInit ==
    /\ deals = << >>
    /\ idx = 1
    /\ dealMap = << >>
    /\ notesMap = EmptyMap
    /\ result = << >>
    /\ pc = "idle"
    /\ allDeals = << >>
    /\ supabaseClient \in BOOLEAN
    /\ SummaryIdle
    /\ EdgeIdle
    /\ DiffIdle
    /\ RowIdle
    /\ ParseIdle
    /\ ScoreIdle
    /\ LoadIdle
    /\ RunIdle
    /\ TwiceIdle
    /\ IngestIdle
    /\ KeyIdle

\* processCSVData calls deduplicateDeals(processed): the merge, the note
\* history and the reuse decision run without a request in between
StartImport ==
    /\ pc = "idle"
    /\ \E rows \in ImportInputs :
          LET m == MergeAll(rows, << >>, EmptyMap)
              res == [i \in 1..Len(m.dealMap) |-> AttachCanonical(m.dealMap[i], m.notesMap)]
              needing == NeedingSummary(allDeals, res)
          IN /\ deals' = rows
             /\ idx' = Len(rows) + 1
             /\ dealMap' = m.dealMap
             /\ notesMap' = m.notesMap
             /\ result' = [i \in 1..Len(res) |->
                              IF ReusesSummary(allDeals, res[i])
                              THEN ReuseFrom(allDeals, res[i]) ELSE res[i]]
             /\ dealsNeedingSummary' = needing
             /\ pc' = IF Len(needing) > 0 THEN "batch" ELSE "done"
    /\ batchI' = 0
    /\ allAiSummaries' = NoSummaries
    /\ aiCalls' = << >>
    /\ inflight' = {}
    /\ UNCHANGED <<allDeals, supabaseClient>>
    /\ UNCHANGED <<edgeVars, diffVars, rowVars, parseVars, scoreVars, loadVars, runVars, twiceVars, ingestVars, keyVars>>

CurrentBatch == BatchSlice(dealsNeedingSummary, batchI)

CurrentPayload == Payload(CurrentBatch, result, notesMap)

\* a batch for which generateAISummaries returns null without a request:
\* no client, or no deal of the batch has notes
BatchWithoutRequest ==
    /\ pc = "batch"
    /\ batchI < Len(dealsNeedingSummary)
    /\ ~supabaseClient \/ CurrentPayload = << >>
    /\ aiCalls' = Append(aiCalls, [batch |-> CurrentBatch, payload |-> << >>,
                                   sent |-> FALSE, kind |-> "none",
                                   summaries |-> NoSummaries])
    /\ batchI' = NextBatchStart(batchI)
    /\ UNCHANGED <<mergeVars, allDeals, supabaseClient, dealsNeedingSummary,
                   allAiSummaries, inflight>>
    /\ UNCHANGED <<edgeVars, diffVars, rowVars, parseVars, scoreVars, loadVars, runVars, twiceVars, ingestVars, keyVars>>

\* a batch whose request is sent; deduplicateDeals awaits it
BatchRequest ==
    /\ pc = "batch"
    /\ batchI < Len(dealsNeedingSummary)
    /\ supabaseClient /\ CurrentPayload # << >>
    /\ aiCalls' = Append(aiCalls, [batch |-> CurrentBatch, payload |-> CurrentPayload,
                                   sent |-> TRUE, kind |-> "pending",
                                   summaries |-> NoSummaries])
    /\ inflight' = inflight \cup {Len(aiCalls) + 1}
    /\ pc' = "await"
    /\ UNCHANGED <<deals, idx, dealMap, notesMap, result, allDeals, supabaseClient,
                   dealsNeedingSummary, batchI, allAiSummaries>>
    /\ UNCHANGED <<edgeVars, diffVars, rowVars, parseVars, scoreVars, loadVars, runVars, twiceVars, ingestVars, keyVars>>

\* the awaited request settles
BatchSettle ==
    /\ pc = "await"
    /\ \E c \in inflight : \E outcome \in InvokeOutcomes(aiCalls[c].payload) :
          LET r == ReturnedSummaries(outcome)
          IN /\ inflight' = inflight \ {c}
             /\ aiCalls' = [aiCalls EXCEPT ![c].kind = outcome.kind,
                                           ![c].summaries = outcome.summaries]
             /\ allAiSummaries' = IF r.ok THEN ObjectAssign(allAiSummaries, r.summaries)
                                  ELSE allAiSummaries
             /\ pc' = IF r.thrown THEN "aborted" ELSE "batch"
             /\ batchI' = IF r.thrown THEN batchI ELSE NextBatchStart(batchI)
    /\ UNCHANGED <<deals, idx, dealMap, notesMap, result, allDeals, supabaseClient,
                   dealsNeedingSummary>>
    /\ UNCHANGED <<edgeVars, diffVars, rowVars, parseVars, scoreVars, loadVars, runVars, twiceVars, ingestVars, keyVars>>

\* after the last batch: every deal needing a summary gets the service's
\* summary for its name, or the fallback, and its summaryHash
AssignSummaries ==
    /\ pc = "batch"
    /\ batchI >= Len(dealsNeedingSummary)
    /\ result' = [i \in 1..Len(result) |->
                     IF i \in Range(dealsNeedingSummary)
                     THEN [result[i] EXCEPT
                              !.notesSummary = SummaryFor(result[i], allAiSummaries, notesMap),
                              !.summaryHash = result[i].notesHash]
                     ELSE result[i]]
    /\ pc' = "done"
    /\ UNCHANGED <<deals, idx, dealMap, notesMap, summaryVars>>
    /\ UNCHANGED <<edgeVars, diffVars, rowVars, parseVars, scoreVars, loadVars, runVars, twiceVars, ingestVars, keyVars>>

\* processCSVData after deduplicateDeals returned: an empty result is
\* reported and dropped, any other becomes the loaded snapshot
FinishImport ==
    /\ pc = "done"
    /\ allDeals' = IF Len(result) = 0 THEN allDeals ELSE result
    /\ deals' = << >>
    /\ idx' = 1
    /\ dealMap' = << >>
    /\ notesMap' = EmptyMap
    /\ result' = << >>
    /\ pc' = "idle"
    /\ dealsNeedingSummary' = << >>
    /\ batchI' = 0
    /\ allAiSummaries' = NoSummaries
    /\ aiCalls' = << >>
    /\ inflight' = {}
    /\ UNCHANGED supabaseClient
    /\ UNCHANGED <<edgeVars, diffVars, rowVars, parseVars, scoreVars, loadVars, runVars, twiceVars, ingestVars, keyVars>>

SummaryNext ==
    \/ StartImport
    \/ BatchWithoutRequest
    \/ BatchRequest
    \/ BatchSettle
    \/ AssignSummaries
    \/ FinishImport

\* ------------------------------------------------------------------------
\* summarize-notes edge function, the cache-first path
\* ------------------------------------------------------------------------
\* the deals a request can name: "a" under owner "x" with canonical notes
\* "m" or "n", and "a" under owner "y" with "m"
EdgeDeal(name, owner, canonical) ==
    [deal_key |-> makeDealKey(name, owner), notes_hash |-> sha256Hex(canonical),
     notes_canonical |-> canonical, dealName |-> name]

EdgeDeals ==
    { EdgeDeal(<<97>>, OwnerX, <<109>>), EdgeDeal(<<97>>, OwnerX, <<110>>),
      EdgeDeal(<<97>>, OwnerY, <<109>>) }

MaxRequestDeals == 2

\* request bodies: one to MaxRequestDeals different deals
EdgeRequests ==
    {r \in SeqsUpTo(EdgeDeals, MaxRequestDeals) :
        /\ Len(r) >= 1
        /\ \A i, j \in 1..Len(r) : r[i] = r[j] => i = j}

PairOf(deal) == <<deal.deal_key, deal.notes_hash>>

\* mutant: the cache is read by deal_key alone
CacheHit_AnyHash(rows, deal) ==
    \E p \in DOMAIN rows : p[1] = deal.deal_key /\ rows[p] # EmptyStr

\* cacheMap.get(`${deal.deal_key}||${deal.notes_hash}`), truthy
CacheHit(rows, deal) == PairOf(deal) \in DOMAIN rows /\ rows[PairOf(deal)] # EmptyStr

\* cachedRows || []: nothing when the select failed
CachedRows(lookupFails) == IF lookupFails THEN NoCache ELSE cache

Misses(req, rows) == SelectSeq(req, LAMBDA d : ~CacheHit(rows, d))

Hits(req, rows) == SelectSeq(req, LAMBDA d : CacheHit(rows, d))

\* the prompt entry of a miss and the answers callClaude can return
ClaudeEntries(misses) ==
    [i \in 1..Len(misses) |->
        [dealName |-> misses[i].dealName, notes |-> <<misses[i].notes_canonical>>]]

\* newSummaries[deal.dealName] || ""
NewSummary(newSummaries, deal) ==
    IF deal.dealName \in DOMAIN newSummaries THEN newSummaries[deal.dealName] ELSE EmptyStr

\* upsert(rowsToInsert, { onConflict: "deal_key,notes_hash,model" })
Upsert(rows, misses, newSummaries) ==
    LET ins == {i \in 1..Len(misses) : NewSummary(newSummaries, misses[i]) # EmptyStr}
        pairs == {PairOf(misses[i]) : i \in ins}
    IN [p \in DOMAIN rows \cup pairs |->
           IF p \in pairs
           THEN NewSummary(newSummaries,
                           misses[CHOOSE i \in ins : PairOf(misses[i]) = p])
           ELSE rows[p]]

ResultRow(deal, summary, cached) ==
    [deal_key |-> deal.deal_key, notes_hash |-> deal.notes_hash,
     summary |-> summary, cached |-> cached]

EdgeInit ==
    /\ deals = << >>
    /\ idx = 1
    /\ dealMap = << >>
    /\ notesMap = EmptyMap
    /\ result = << >>
    /\ pc = "idle"
    /\ allDeals = << >>
    /\ supabaseClient = TRUE
    /\ SummaryIdle
    /\ EdgeIdle
    /\ DiffIdle
    /\ RowIdle
    /\ ParseIdle
    /\ ScoreIdle
    /\ LoadIdle
    /\ RunIdle
    /\ TwiceIdle
    /\ IngestIdle
    /\ KeyIdle

\* a request all of whose deals are served from the cache
ServeFromCache ==
    /\ \E req \in EdgeRequests, lookupFails \in BOOLEAN :
          LET rows == CachedRows(lookupFails)
              hits == Hits(req, rows)
          IN /\ Misses(req, rows) = << >>
             /\ edgeResponse' =
                    [status |-> 200,
                     summaries |-> [i \in 1..Len(hits) |->
                                       ResultRow(hits[i], rows[PairOf(hits[i])], TRUE)]]
    /\ UNCHANGED <<cache, summarized, recomputed>>
    /\ UNCHANGED <<mergeVars, summaryVars, diffVars, rowVars, parseVars, scoreVars, loadVars, runVars, twiceVars, ingestVars, keyVars>>

\* a request with misses, answered by the model; the new summaries are
\* stored unless the upsert fails
ServeWithModel ==
    /\ \E req \in EdgeRequests, lookupFails \in BOOLEAN, upsertFails \in BOOLEAN :
          LET rows == CachedRows(lookupFails)
              hits == Hits(req, rows)
              misses == Misses(req, rows)
          IN /\ misses # << >>
             /\ \E newSummaries \in ResponseMaps(ClaudeEntries(misses)) :
                   /\ edgeResponse' =
                          [status |-> 200,
                           summaries |->
                               [i \in 1..Len(hits) |->
                                   ResultRow(hits[i], rows[PairOf(hits[i])], TRUE)]
                               \o [i \in 1..Len(misses) |->
                                   ResultRow(misses[i], NewSummary(newSummaries, misses[i]), FALSE)]]
                   /\ cache' = IF upsertFails THEN cache
                               ELSE Upsert(cache, misses, newSummaries)
                   /\ summarized' = summarized \cup
                          {PairOf(misses[i]) : i \in
                              {k \in 1..Len(misses) : NewSummary(newSummaries, misses[k]) # EmptyStr}}
                   /\ recomputed' = recomputed \cup
                          ({PairOf(misses[i]) : i \in 1..Len(misses)} \cap summarized)
    /\ UNCHANGED <<mergeVars, summaryVars, diffVars, rowVars, parseVars, scoreVars, loadVars, runVars, twiceVars, ingestVars, keyVars>>

\* a request with misses for which callClaude throws: status 500
ModelCallFails ==
    /\ \E req \in EdgeRequests, lookupFails \in BOOLEAN :
          LET misses == Misses(req, CachedRows(lookupFails))
          IN /\ misses # << >>
             /\ edgeResponse' = [status |-> 500, summaries |-> << >>]
             /\ recomputed' = recomputed \cup
                    ({PairOf(misses[i]) : i \in 1..Len(misses)} \cap summarized)
    /\ UNCHANGED <<cache, summarized>>
    /\ UNCHANGED <<mergeVars, summaryVars, diffVars, rowVars, parseVars, scoreVars, loadVars, runVars, twiceVars, ingestVars, keyVars>>

EdgeNext == ServeFromCache \/ ServeWithModel \/ ModelCallFails

\* ------------------------------------------------------------------------
\* diffDeals
\* ------------------------------------------------------------------------
\* decimal digits of a natural number
RECURSIVE Dec(_)
Dec(n) == IF n < 10 THEN <<48 + n>> ELSE Dec(n \div 10) \o <<48 + (n % 10)>>

\* ACV amounts are kept in tenths of a dollar.
\* Math.round(acv || 0): the nearest integer, halves rounded up
MathRound(acv) == (acv + 5) \div 10

\* value.toFixed(0) of an amount: halves rounded away from zero
ToFixed0(acv) ==
    IF acv < 0 THEN <<45>> \o Dec((5 - acv) \div 10) ELSE Dec((acv + 5) \div 10)

\* '$' + (value / 1000000).toFixed(1) + 'M', '$' + (value / 1000).toFixed(0) + 'K'
\* or '$' + value.toFixed(0)
formatCurrencyCompact(value) ==
    IF value >= 10000000
    THEN LET n == (value + 500000) \div 1000000
         IN <<36>> \o Dec(n \div 10) \o <<46>> \o Dec(n % 10) \o <<77>>
    ELSE IF value >= 10000
    THEN <<36>> \o Dec((value + 5000) \div 10000) \o <<75>>
    ELSE <<36>> \o ToFixed0(value)

Arrow == <<32, 8594, 32>>

Dash(stage) == IF stage = EmptyStr THEN <<45>> ELSE stage

\* `Stage: ${old.stage || '-'} -> ${deal.stage || '-'}`
StageLine(old, deal) ==
    <<83, 116, 97, 103, 101, 58, 32>> \o Dash(old.stage) \o Arrow \o Dash(deal.stage)

\* `ACV: ${formatCurrencyCompact(old.acv)} -> ${formatCurrencyCompact(deal.acv)}`
AcvLine(old, deal) ==
    <<65, 67, 86, 58, 32>> \o formatCurrencyCompact(old.acv) \o Arrow
        \o formatCurrencyCompact(deal.acv)

NoteLine == <<78, 111, 116, 101, 32, 117, 112, 100, 97, 116, 101, 100>>

\* mutant: the key of a newer deal is the raw name and owner
DiffKey_Raw(deal) == deal.dealName \o <<124, 124>> \o deal.dealOwner

\* deal.dealKey || makeDealKey(deal.dealName, deal.dealOwner)
DiffKey(deal) ==
    IF deal.dealKey # EmptyStr THEN deal.dealKey
    ELSE makeDealKey(deal.dealName, deal.dealOwner)

\* oldMap.set(key, deal) for every old deal: the last deal set under a key
OldMapHas(old, key) == \E i \in 1..Len(old) : DiffKey(old[i]) = key

OldMapGet(old, key) ==
    LET under == {i \in 1..Len(old) : DiffKey(old[i]) = key}
    IN old[CHOOSE i \in under : \A j \in under : j <= i]

\* mutant: the amounts are compared as they are
AcvChanged_Unrounded(old, deal) == deal.acv # old.acv

\* mutant: only the newer amount is rounded
AcvChanged_RoundsNewer(old, deal) == MathRound(deal.acv) * 10 # old.acv

\* Math.round(deal.acv || 0) !== Math.round(old.acv || 0)
AcvChanged(old, deal) == MathRound(deal.acv) # MathRound(old.acv)

\* the change lines of a deal that has a baseline
Changes(old, deal) ==
    (IF deal.stage # old.stage THEN <<StageLine(old, deal)>> ELSE << >>)
    \o (IF AcvChanged(old, deal) THEN <<AcvLine(old, deal)>> ELSE << >>)
    \o (IF Trim(deal.noteContent) # Trim(old.noteContent) THEN <<NoteLine>> ELSE << >>)

\* the deal as diffDeals leaves it
Tagged(old, deal) ==
    LET key == DiffKey(deal)
    IN IF ~OldMapHas(old, key)
       THEN [deal EXCEPT !.changeType = "new", !.changes = << >>]
       ELSE LET changes == Changes(OldMapGet(old, key), deal)
            IN IF Len(changes) > 0
               THEN [deal EXCEPT !.changeType = "updated", !.changes = changes]
               ELSE [deal EXCEPT !.changeType = "unchanged", !.changes = << >>]

CountType(tagged, type) == Cardinality({i \in 1..Len(tagged) : tagged[i].changeType = type})

\* mutant: removed deals are counted as the shrinkage of the snapshot
RemovedCount_Shrinkage(old, new) ==
    IF Len(old) > Len(new) THEN Len(old) - Len(new) ELSE 0

\* for (const key of oldMap.keys()) if (!newKeys.has(key)) removedCount++
RemovedCount(old, new) ==
    Cardinality({DiffKey(old[i]) : i \in 1..Len(old)}
                \ {DiffKey(new[i]) : i \in 1..Len(new)})

\* the snapshots diffed: deals "a" (also spelled "A"), "b" and "c" of owner
\* "x"; "a" in one of six states, "b" in one of two, "A" and "c" in one
DiffDeal(name, stage, acv, note, keyed) ==
    [dealName |-> name, dealOwner |-> OwnerX,
     dealKey |-> IF keyed THEN makeDealKey(name, OwnerX) ELSE EmptyStr,
     stage |-> stage, acv |-> acv, noteContent |-> note,
     changeType |-> "none", changes |-> << >>]

DiffStates ==
    << <<(<<115>>), 1004, (<<110>>)>>,
       <<(<<116>>), 1004, (<<110>>)>>,
       <<(<<115>>), 1005, (<<110>>)>>,
       <<(<<115>>), 1000, (<<32, 110>>)>>,
       <<(<<115>>), 1004, (<<109>>)>>,
       <<EmptyStr, 15000, (<<109>>)>> >>

DiffShapes ==
    ({ <<97>> } \X (1..6)) \cup ({ <<98>> } \X (1..2)) \cup ({ <<65>>, <<99>> } \X (1..1))

DiffDealValues(keyed) ==
    {DiffDeal(sh[1], DiffStates[sh[2]][1], DiffStates[sh[2]][2], DiffStates[sh[2]][3], keyed) :
        sh \in DiffShapes}

MaxDeals == 2

\* deduplicated snapshots of this session: no two deals share a key
KeyedSnapshots ==
    {sn \in SeqsUpTo(DiffDealValues(TRUE), MaxDeals) :
        \A i, j \in 1..Len(sn) : sn[i].dealKey = sn[j].dealKey => i = j}

\* the same snapshots loaded from storage: the rows carry no dealKey
LoadedSnapshots ==
    {[i \in 1..Len(sn) |-> [sn[i] EXCEPT !.dealKey = EmptyStr]] : sn \in KeyedSnapshots}

Snapshots(keyed) == IF keyed THEN KeyedSnapshots ELSE LoadedSnapshots

\* the baseline is a snapshot of this session or one loaded from storage
\* (supabaseRowToInternal sets no dealKey); a newer snapshot loaded from
\* storage is compared with a loaded baseline
DiffInit ==
    /\ deals = << >>
    /\ idx = 1
    /\ dealMap = << >>
    /\ notesMap = EmptyMap
    /\ result = << >>
    /\ pc = "idle"
    /\ allDeals = << >>
    /\ supabaseClient = TRUE
    /\ SummaryIdle
    /\ EdgeIdle
    /\ RowIdle
    /\ ParseIdle
    /\ ScoreIdle
    /\ LoadIdle
    /\ RunIdle
    /\ TwiceIdle
    /\ IngestIdle
    /\ KeyIdle
    /\ \E oldKeyed \in BOOLEAN, newKeyed \in BOOLEAN :
          /\ (oldKeyed => newKeyed)
          /\ oldDeals \in Snapshots(oldKeyed)
          /\ newDeals \in Snapshots(newKeyed)
    /\ changesSummary = NoCounts
    /\ diffPc = "ready"

\* mutant: only the first baseline deal is entered in oldMap
diffDeals_FirstBaselineOnly(old, new) ==
    LET first == IF old = << >> THEN << >> ELSE <<old[1]>>
        tagged == [i \in 1..Len(new) |-> Tagged(first, new[i])]
    IN [tagged |-> tagged,
        counts |-> [newCount |-> CountType(tagged, "new"),
                    updatedCount |-> CountType(tagged, "updated"),
                    removedCount |-> RemovedCount(first, new),
                    unchangedCount |-> CountType(tagged, "unchanged")]]

\* diffDeals(oldDeals, newDeals): the newer deals as tagged in place and
\* the counts returned
diffDeals(old, new) ==
    LET tagged == [i \in 1..Len(new) |-> Tagged(old, new[i])]
    IN [tagged |-> tagged,
        counts |-> [newCount |-> CountType(tagged, "new"),
                    updatedCount |-> CountType(tagged, "updated"),
                    removedCount |-> RemovedCount(old, new),
                    unchangedCount |-> CountType(tagged, "unchanged")]]

\* changesSummary = diffDeals(oldDeals, newDeals)
DiffDeals ==
    /\ diffPc = "ready"
    /\ newDeals' = diffDeals(oldDeals, newDeals).tagged
    /\ changesSummary' = diffDeals(oldDeals, newDeals).counts
    /\ diffPc' = "done"
    /\ UNCHANGED oldDeals
    /\ UNCHANGED <<mergeVars, summaryVars, edgeVars, rowVars, parseVars, scoreVars, loadVars, runVars, twiceVars, ingestVars, keyVars>>

DiffNext == DiffDeals

\* ------------------------------------------------------------------------
\* Row normalisation: parseACV, processRow, validateRow
\* ------------------------------------------------------------------------
\* the CSV column names of COLUMN_MAPPINGS
\* "Deal Owner"
COL_DEAL_OWNER ==
    <<68, 101, 97, 108, 32, 79, 119, 110, 101, 114>>

\* "Deal Name"
COL_DEAL_NAME ==
    <<68, 101, 97, 108, 32, 78, 97, 109, 101>>

\* "Stage"
COL_STAGE ==
    <<83, 116, 97, 103, 101>>

\* "Annual Contract Value"
COL_ACV ==
    <<65, 110, 110, 117, 97, 108, 32, 67, 111, 110, 116, 114, 97, 99, 116, 32, 86, 97, 108, 117, 101>>

\* "Closing Date"
COL_CLOSING_DATE ==
    <<67, 108, 111, 115, 105, 110, 103, 32, 68, 97, 116, 101>>

\* "Modified Time (Notes)"
COL_MODIFIED_DATE ==
    <<77, 111, 100, 105, 102, 105, 101, 100, 32, 84, 105, 109, 101, 32, 40, 78, 111, 116, 101, 115, 41>>

\* "Note Content"
COL_NOTE_CONTENT ==
    <<78, 111, 116, 101, 32, 67, 111, 110, 116, 101, 110, 116>>

\* "Description"
COL_DESCRIPTION ==
    <<68, 101, 115, 99, 114, 105, 112, 116, 105, 111, 110>>

\* the ACV texts of the rows normalised
\*   ''
\*   '100'
\*   '$1,234.56'
\*   '1,234.56 USD'
\*   'US$5'
\*   'usd 5'
\*   '5 US$'
\*   'EUR 5'
\*   '€5'
\*   ' € 5'
\*   '5 €'
\*   'CAD 5'
\*   'CA$5'
\*   'C$5'
\*   'USD EUR 5'
\*   'EUR CAD 5'
\*   'C$ 5 USD'
\*   '($1,234.56)'
\*   '(1234)'
\*   '-5'
\*   '12.345,67'
\*   '1234,56'
\*   '1,234'
\*   '1,234,567'
\*   'abc'
\*   '1.50'
\*   '(0)'
\*   '--5'
\*   '1.2.3'
AcvTexts ==
    {
      (<< >>),
      (<<49, 48, 48>>),
      (<<36, 49, 44, 50, 51, 52, 46, 53, 54>>),
      (<<49, 44, 50, 51, 52, 46, 53, 54, 32, 85, 83, 68>>),
      (<<85, 83, 36, 53>>),
      (<<117, 115, 100, 32, 53>>),
      (<<53, 32, 85, 83, 36>>),
      (<<69, 85, 82, 32, 53>>),
      (<<8364, 53>>),
      (<<32, 8364, 32, 53>>),
      (<<53, 32, 8364>>),
      (<<67, 65, 68, 32, 53>>),
      (<<67, 65, 36, 53>>),
      (<<67, 36, 53>>),
      (<<85, 83, 68, 32, 69, 85, 82, 32, 53>>),
      (<<69, 85, 82, 32, 67, 65, 68, 32, 53>>),
      (<<67, 36, 32, 53, 32, 85, 83, 68>>),
      (<<40, 36, 49, 44, 50, 51, 52, 46, 53, 54, 41>>),
      (<<40, 49, 50, 51, 52, 41>>),
      (<<45, 53>>),
      (<<49, 50, 46, 51, 52, 53, 44, 54, 55>>),
      (<<49, 50, 51, 52, 44, 53, 54>>),
      (<<49, 44, 50, 51, 52>>),
      (<<49, 44, 50, 51, 52, 44, 53, 54, 55>>),
      (<<97, 98, 99>>),
      (<<49, 46, 53, 48>>),
      (<<40, 48, 41>>),
      (<<45, 45, 53>>),
      (<<49, 46, 50, 46, 51>>) }


COLUMN_MAPPINGS ==
    << <<COL_DEAL_OWNER, "dealOwner">>, <<COL_DEAL_NAME, "dealName">>,
       <<COL_STAGE, "stage">>, <<COL_ACV, "acv">>,
       <<COL_CLOSING_DATE, "closingDate">>, <<COL_MODIFIED_DATE, "modifiedDate">>,
       <<COL_NOTE_CONTENT, "noteContent">>, <<COL_DESCRIPTION, "description">> >>

\* row[csvCol] || ''
RowGet(row, csvCol) == IF csvCol \in DOMAIN row THEN row[csvCol] ELSE EmptyStr

ToUpperChar(c) == IF c >= 97 /\ c <= 122 THEN c - 32 ELSE c

ToUpper(s) == [i \in 1..Len(s) |-> ToUpperChar(s[i])]

\* s.includes(sub)
Includes(s, sub) ==
    \E i \in 0..(Len(s) - Len(sub)) : SubSeq(s, i + 1, i + Len(sub)) = sub

StartsWith(s, prefix) == Len(s) >= Len(prefix) /\ SubSeq(s, 1, Len(prefix)) = prefix

\* s.replace(/\s/g, '')
RemoveWs(s) == SelectSeq(s, LAMBDA c : ~IsWs(c))

\* a number is mant / 10^scale, without trailing zeros in the fraction
RECURSIVE Num(_, _)
Num(mant, scale) ==
    IF mant = 0 THEN [mant |-> 0, scale |-> 0]
    ELSE IF scale > 0 /\ mant % 10 = 0 THEN Num(mant \div 10, scale - 1)
    ELSE [mant |-> mant, scale |-> scale]

Zero == Num(0, 0)

IsDigit(c) == c >= 48 /\ c <= 57

\* the leading decimal digits of s
RECURSIVE LeadingDigits(_)
LeadingDigits(s) ==
    IF s = << >> \/ ~IsDigit(Head(s)) THEN << >>
    ELSE <<Head(s)>> \o LeadingDigits(Tail(s))

RECURSIVE DigitsValue(_)
DigitsValue(ds) ==
    IF ds = << >> THEN 0
    ELSE DigitsValue(SubSeq(ds, 1, Len(ds) - 1)) * 10 + (ds[Len(ds)] - 48)

\* parseFloat(numeric) || 0 for a string of digits, dots and minus signs: the
\* longest prefix that is a decimal literal, 0 when there is none
ParseFloatOrZero(s) ==
    LET negative == s # << >> /\ Head(s) = 45
        body == IF negative THEN Tail(s) ELSE s
        int == LeadingDigits(body)
        rest == SubSeq(body, Len(int) + 1, Len(body))
        frac == IF rest # << >> /\ Head(rest) = 46 THEN LeadingDigits(Tail(rest)) ELSE << >>
        mant == DigitsValue(int \o frac)
    IN IF int = << >> /\ frac = << >> THEN Zero
       ELSE Num(IF negative THEN 0 - mant ELSE mant, Len(frac))

\* mutant: a CAD marker is looked for before the USD and EUR markers
DetectCurrency_CadFirst(upper) ==
    IF Includes(upper, <<67, 65, 68>>) \/ Includes(upper, <<67, 65, 36>>)
          \/ Includes(upper, <<67, 36>>)
    THEN "CAD"
    ELSE IF Includes(upper, <<85, 83, 68>>) \/ StartsWith(upper, <<85, 83, 36>>)
    THEN "USD"
    ELSE IF Includes(upper, <<69, 85, 82>>) \/ StartsWith(RemoveWs(upper), <<8364>>)
    THEN "EUR"
    ELSE "CAD"

\* upper.includes('USD') || /^US\$/.test(upper), then EUR or a leading euro
\* sign, then CAD, CA$ or C$, else the bare amount is CAD
DetectCurrency(upper) ==
    IF Includes(upper, <<85, 83, 68>>) \/ StartsWith(upper, <<85, 83, 36>>)
    THEN "USD"
    ELSE IF Includes(upper, <<69, 85, 82>>) \/ StartsWith(RemoveWs(upper), <<8364>>)
    THEN "EUR"
    ELSE "CAD"

\* /\(.*\)/.test(upper)
IsParenthesised(upper) ==
    \E i, j \in 1..Len(upper) :
        /\ i < j
        /\ upper[i] = 40
        /\ upper[j] = 41
        /\ \A k \in (i + 1)..(j - 1) : ~IsLineTerminator(upper[k])

\* upper.replace(/[^0-9.,-]/g, '')
KeepNumeric(upper) == SelectSeq(upper, LAMBDA c : IsDigit(c) \/ c \in {44, 45, 46})

CountOf(s, ch) == Cardinality({i \in 1..Len(s) : s[i] = ch})

\* s.lastIndexOf(ch) + 1: 0 when ch does not occur
LastIndexOf(s, ch) ==
    IF \E i \in 1..Len(s) : s[i] = ch
    THEN CHOOSE i \in 1..Len(s) : s[i] = ch /\ \A j \in (i + 1)..Len(s) : s[j] # ch
    ELSE 0

\* a single comma after the last dot with at most two digits behind it is
\* the decimal separator; any other comma separates thousands
ResolveCommas(numeric) ==
    IF ~Includes(numeric, <<44>>) THEN numeric
    ELSE LET lastComma == LastIndexOf(numeric, 44)
             digitsAfterComma == Len(numeric) - lastComma
         IN IF /\ CountOf(numeric, 44) = 1
               /\ digitsAfterComma <= 2
               /\ lastComma > LastIndexOf(numeric, 46)
            THEN [i \in 1..Len(SelectSeq(numeric, LAMBDA c : c # 46)) |->
                     IF SelectSeq(numeric, LAMBDA c : c # 46)[i] = 44 THEN 46
                     ELSE SelectSeq(numeric, LAMBDA c : c # 46)[i]]
            ELSE SelectSeq(numeric, LAMBDA c : c # 44)

\* mutant: the amount of a parenthesised text keeps its sign
SignedAmount_Unsigned(isNegative, amount) == amount

\* if (isNegative && amount > 0) amount = -amount
SignedAmount(isNegative, amount) ==
    IF isNegative /\ amount.mant > 0 THEN Num(0 - amount.mant, amount.scale) ELSE amount

parseACV(value) ==
    IF value = EmptyStr
    THEN [value |-> Zero, currency |-> "CAD", isCAD |-> TRUE, raw |-> EmptyStr]
    ELSE LET upper == ToUpper(Trim(value))
             currency == DetectCurrency(upper)
             amount == ParseFloatOrZero(ResolveCommas(KeepNumeric(upper)))
         IN [value |-> SignedAmount(IsParenthesised(upper), amount),
             currency |-> currency, isCAD |-> currency = "CAD", raw |-> value]

\* html.replace(/<[^>]*>/g, '')
RECURSIVE stripHTML(_)
stripHTML(html) ==
    IF html = << >> THEN << >>
    ELSE IF Head(html) = 60 /\ \E j \in 2..Len(html) : html[j] = 62
         THEN LET close == CHOOSE j \in 2..Len(html) :
                               html[j] = 62 /\ \A k \in 2..(j - 1) : html[k] # 62
              IN stripHTML(SubSeq(html, close + 1, Len(html)))
         ELSE <<Head(html)>> \o stripHTML(Tail(html))

\* the date texts of the rows normalised: "" and "1" to "3", read as day
\* numbers; any other text is not a date
parseDate(dateStr) ==
    IF Len(dateStr) = 1 /\ dateStr[1] \in 49..51 THEN dateStr[1] - 48 ELSE NullDate

\* the deal of a row, none for a row in another currency
processRow(row) ==
    LET acvResult == parseACV(RowGet(row, COL_ACV))
    IN IF ~acvResult.isCAD THEN << >>
       ELSE << [dealOwner |-> RowGet(row, COL_DEAL_OWNER),
                dealName |-> RowGet(row, COL_DEAL_NAME),
                stage |-> RowGet(row, COL_STAGE),
                acv |-> acvResult.value,
                closingDate |-> parseDate(RowGet(row, COL_CLOSING_DATE)),
                modifiedDate |-> parseDate(RowGet(row, COL_MODIFIED_DATE)),
                noteContent |-> stripHTML(RowGet(row, COL_NOTE_CONTENT)),
                description |-> RowGet(row, COL_DESCRIPTION),
                dealKey |-> makeDealKey(RowGet(row, COL_DEAL_NAME),
                                        RowGet(row, COL_DEAL_OWNER))] >>

OWNER_MAX_LENGTH == 100

OWNER_MAX_PARTS == 5

\* owner.split(' ').length
SplitLength(owner) == CountOf(owner, 32) + 1

\* !owner || owner.length > 100 || owner.split(' ').length > 5, then
\* !deal.dealName || deal.dealName.trim().length === 0
validateRow(deal) ==
    /\ deal.dealOwner # EmptyStr
    /\ Len(deal.dealOwner) <= OWNER_MAX_LENGTH
    /\ SplitLength(deal.dealOwner) <= OWNER_MAX_PARTS
    /\ deal.dealName # EmptyStr
    /\ Len(Trim(deal.dealName)) # 0

\* the rows normalised: an owner, a deal name and an ACV text; the stage is
\* "s" and the note is "<b>n</b>"
OwnerOfLength(n) == [i \in 1..n |-> 120]

\* "", "x", " ", "a b c d e", "a b c d e f", "a b c d  e" (two spaces), six
\* names separated by tabs, and owners of 100 and 101 characters
RowOwners ==
    { EmptyStr, <<120>>, <<32>>,
      <<97, 32, 98, 32, 99, 32, 100, 32, 101>>,
      <<97, 32, 98, 32, 99, 32, 100, 32, 101, 32, 102>>,
      <<97, 32, 98, 32, 99, 32, 100, 32, 32, 101>>,
      <<97, 9, 98, 9, 99, 9, 100, 9, 101, 9, 102>>,
      OwnerOfLength(OWNER_MAX_LENGTH), OwnerOfLength(OWNER_MAX_LENGTH + 1) }

\* "", " ", a tab, "a" and " a"
RowNames == { EmptyStr, <<32>>, <<9>>, <<97>>, <<32, 97>> }

RawRow(owner, name, acvText) ==
    (COL_DEAL_OWNER :> owner) @@ (COL_DEAL_NAME :> name) @@ (COL_ACV :> acvText)
        @@ (COL_STAGE :> <<115>>) @@ (COL_NOTE_CONTENT :> <<60, 98, 62, 110, 60, 47, 98, 62>>)

RowInputs == {RawRow(o, n, t) : o \in RowOwners, n \in RowNames, t \in AcvTexts}

RowInit ==
    /\ MergeIdle
    /\ SummaryIdle
    /\ EdgeIdle
    /\ DiffIdle
    /\ ParseIdle
    /\ ScoreIdle
    /\ LoadIdle
    /\ RunIdle
    /\ TwiceIdle
    /\ IngestIdle
    /\ KeyIdle
    /\ rawRow \in RowInputs
    /\ rowDeal = << >>
    /\ rowPc = "raw"

\* processRow returns null: the row is in another currency
DropOtherCurrency ==
    /\ rowPc = "raw"
    /\ processRow(rawRow) = << >>
    /\ rowPc' = "filtered"
    /\ UNCHANGED <<rawRow, rowDeal>>
    /\ UNCHANGED <<mergeVars, summaryVars, edgeVars, diffVars, parseVars, scoreVars, loadVars, runVars, twiceVars, ingestVars, keyVars>>

\* validateRow returns false: the deal is dropped
DropInvalid ==
    /\ rowPc = "raw"
    /\ processRow(rawRow) # << >>
    /\ ~validateRow(processRow(rawRow)[1])
    /\ rowPc' = "invalid"
    /\ UNCHANGED <<rawRow, rowDeal>>
    /\ UNCHANGED <<mergeVars, summaryVars, edgeVars, diffVars, parseVars, scoreVars, loadVars, runVars, twiceVars, ingestVars, keyVars>>

\* processed.push(deal)
KeepRow ==
    /\ rowPc = "raw"
    /\ processRow(rawRow) # << >>
    /\ validateRow(processRow(rawRow)[1])
    /\ rowDeal' = processRow(rawRow)
    /\ rowPc' = "kept"
    /\ UNCHANGED rawRow
    /\ UNCHANGED <<mergeVars, summaryVars, edgeVars, diffVars, parseVars, scoreVars, loadVars, runVars, twiceVars, ingestVars, keyVars>>

RowNext == DropOtherCurrency \/ DropInvalid \/ KeepRow

\* header first, one data row
HeaderFirst ==
    <<68, 101, 97, 108, 32, 79, 119, 110, 101, 114, 44, 68, 101, 97, 108, 32, 78, 97, 109, 101, 44, 83, 116, 97, 103, 101, 10, 120, 44, 97, 44, 116, 10>>

\* a header and no data row
HeaderOnly ==
    <<68, 101, 97, 108, 32, 79, 119, 110, 101, 114, 44, 68, 101, 97, 108, 32, 78, 97, 109, 101, 44, 83, 116, 97, 103, 101, 10>>

\* a byte order mark, quoted fields, CRLF line ends, a quoted field holding a comma, a doubled quote and a line break, an empty line, no final line end
HeaderCrLf ==
    <<65279, 34, 68, 101, 97, 108, 32, 79, 119, 110, 101, 114, 34, 44, 34, 68, 101, 97, 108, 32, 78, 97, 109, 101, 34, 44, 83, 116, 97, 103, 101, 13, 10, 120, 44, 34, 97, 44, 34, 34, 98, 34, 34, 13, 10, 99, 34, 44, 116, 13, 10, 13, 10, 120, 44, 97, 44, 116>>

\* "Deal Owner " with a trailing space is not the header field
HeaderInexact ==
    <<68, 101, 97, 108, 32, 79, 119, 110, 101, 114, 32, 44, 68, 101, 97, 108, 32, 78, 97, 109, 101, 44, 83, 116, 97, 103, 101, 10, 120, 44, 97, 44, 116, 10>>

\* no "Deal Name" field
OwnerOnly ==
    <<68, 101, 97, 108, 32, 79, 119, 110, 101, 114, 44, 83, 116, 97, 103, 101, 10, 120, 44, 116, 10>>

\* the only data row is in another currency
OtherCurrency ==
    <<68, 101, 97, 108, 32, 79, 119, 110, 101, 114, 44, 68, 101, 97, 108, 32, 78, 97, 109, 101, 44, 65, 110, 110, 117, 97, 108, 32, 67, 111, 110, 116, 114, 97, 99, 116, 32, 86, 97, 108, 117, 101, 10, 120, 44, 97, 44, 53, 32, 85, 83, 68, 10>>

\* "Could not find header row."
ERR_NO_HEADER ==
    <<67, 111, 117, 108, 100, 32, 110, 111, 116, 32, 102, 105, 110, 100, 32, 104, 101, 97, 100, 101, 114, 32, 114, 111, 119, 46>>

\* "No data found in CSV file."
ERR_NO_DATA ==
    <<78, 111, 32, 100, 97, 116, 97, 32, 102, 111, 117, 110, 100, 32, 105, 110, 32, 67, 83, 86, 32, 102, 105, 108, 101, 46>>

\* "Error processing CSV: "
ALERT_ERROR_PREFIX ==
    <<69, 114, 114, 111, 114, 32, 112, 114, 111, 99, 101, 115, 115, 105, 110, 103, 32, 67, 83, 86, 58, 32>>

\* "No valid CAD deals found in the CSV file."
ALERT_NO_DEALS ==
    <<78, 111, 32, 118, 97, 108, 105, 100, 32, 67, 65, 68, 32, 100, 101, 97, 108, 115, 32, 102, 111, 117, 110, 100, 32, 105, 110, 32, 116, 104, 101, 32, 67, 83, 86, 32, 102, 105, 108, 101, 46>>
\* "Error: Failed to insert deals into Supabase. ..."
ALERT_INSERT_FAILED ==
    <<69, 114, 114, 111, 114, 58, 32, 70, 97, 105, 108, 101, 100, 32, 116, 111, 32, 105, 110, 115, 101, 114, 116, 32, 100, 101, 97, 108, 115, 32, 105, 110, 116, 111, 32, 83, 117, 112, 97, 98, 97, 115, 101, 46, 32, 67, 104, 101, 99, 107, 32, 98, 114, 111, 119, 115, 101, 114, 32, 99, 111, 110, 115, 111, 108, 101, 32, 40, 70, 49, 50, 41, 32, 102, 111, 114, 32, 100, 101, 116, 97, 105, 108, 115, 46>>

\* "Error: Failed to create upload record in Supabase. ..."
ALERT_UPLOAD_FAILED ==
    <<69, 114, 114, 111, 114, 58, 32, 70, 97, 105, 108, 101, 100, 32, 116, 111, 32, 99, 114, 101, 97, 116, 101, 32, 117, 112, 108, 111, 97, 100, 32, 114, 101, 99, 111, 114, 100, 32, 105, 110, 32, 83, 117, 112, 97, 98, 97, 115, 101, 46, 32, 67, 104, 101, 99, 107, 32, 98, 114, 111, 119, 115, 101, 114, 32, 99, 111, 110, 115, 111, 108, 101, 32, 40, 70, 49, 50, 41, 32, 102, 111, 114, 32, 100, 101, 116, 97, 105, 108, 115, 46>>

\* ------------------------------------------------------------------------
\* CSV import: parseCSVText, parseCSV and processCSVData
\* ------------------------------------------------------------------------
\* mutant: a line feed ends the row inside quotes too
TokenStep_LineFeedEndsRow(st, char, nextChar) ==
    IF char = 10
    THEN [st EXCEPT !.rows = Append(st.rows, Append(st.row, st.field)),
                    !.row = << >>, !.field = << >>, !.i = st.i + 1]
    ELSE IF st.inQuotes
    THEN IF char = 34
         THEN IF nextChar = 34
              THEN [st EXCEPT !.field = Append(st.field, 34), !.i = st.i + 2]
              ELSE [st EXCEPT !.inQuotes = FALSE, !.i = st.i + 1]
         ELSE [st EXCEPT !.field = Append(st.field, char), !.i = st.i + 1]
    ELSE IF char = 34 THEN [st EXCEPT !.inQuotes = TRUE, !.i = st.i + 1]
    ELSE IF char = 44
    THEN [st EXCEPT !.row = Append(st.row, st.field), !.field = << >>, !.i = st.i + 1]
    ELSE IF char = 13
    THEN [st EXCEPT !.rows = Append(st.rows, Append(st.row, st.field)),
                    !.row = << >>, !.field = << >>,
                    !.i = IF nextChar = 10 THEN st.i + 2 ELSE st.i + 1]
    ELSE [st EXCEPT !.field = Append(st.field, char), !.i = st.i + 1]

\* one iteration of the loop of parseCSVText over text[i]; nextChar is 0
\* past the end of the text
TokenStep(st, char, nextChar) ==
    IF st.inQuotes
    THEN IF char = 34
         THEN IF nextChar = 34
              THEN [st EXCEPT !.field = Append(st.field, 34), !.i = st.i + 2]
              ELSE [st EXCEPT !.inQuotes = FALSE, !.i = st.i + 1]
         ELSE [st EXCEPT !.field = Append(st.field, char), !.i = st.i + 1]
    ELSE IF char = 34 THEN [st EXCEPT !.inQuotes = TRUE, !.i = st.i + 1]
    ELSE IF char = 44
    THEN [st EXCEPT !.row = Append(st.row, st.field), !.field = << >>, !.i = st.i + 1]
    ELSE IF char = 13
    THEN [st EXCEPT !.rows = Append(st.rows, Append(st.row, st.field)),
                    !.row = << >>, !.field = << >>,
                    !.i = IF nextChar = 10 THEN st.i + 2 ELSE st.i + 1]
    ELSE IF char = 10
    THEN [st EXCEPT !.rows = Append(st.rows, Append(st.row, st.field)),
                    !.row = << >>, !.field = << >>, !.i = st.i + 1]
    ELSE [st EXCEPT !.field = Append(st.field, char), !.i = st.i + 1]

\* text[i], 0 for undefined
CharAt(text, i) == IF i >= 1 /\ i <= Len(text) THEN text[i] ELSE 0

\* if (text.charCodeAt(0) === 0xFEFF) text = text.slice(1)
StripBom(text) == IF text # << >> /\ Head(text) = 65279 THEN Tail(text) ELSE text

HEADER_SCAN_ROWS == 20

\* row.includes('Deal Owner') && row.includes('Deal Name')
IsHeaderRow(row) ==
    /\ \E k \in 1..Len(row) : row[k] = COL_DEAL_OWNER
    /\ \E k \in 1..Len(row) : row[k] = COL_DEAL_NAME

\* mutant: every row is scanned for the header
ScanWindow_AllRows(allRows) == 1..Len(allRows)

\* for (let i = 0; i < Math.min(allRows.length, 20); i++)
ScanWindow(allRows) ==
    1..(IF Len(allRows) < HEADER_SCAN_ROWS THEN Len(allRows) ELSE HEADER_SCAN_ROWS)

\* headerRowIndex + 1, 0 when no row of the window qualifies
HeaderRowIndex(allRows) ==
    LET found == {i \in ScanWindow(allRows) : IsHeaderRow(allRows[i])}
    IN IF found = {} THEN 0 ELSE CHOOSE i \in found : \A j \in found : i <= j

\* values.length === 0 || (values.length === 1 && !values[0])
IsEmptyRow(values) == Len(values) = 0 \/ (Len(values) = 1 /\ values[1] = << >>)

\* headers.forEach((header, index) => row[header] = values[index] || '')
RowObject(headers, values) ==
    [h \in {headers[k] : k \in 1..Len(headers)} |->
        LET last == CHOOSE k \in 1..Len(headers) :
                        headers[k] = h /\ \A j \in (k + 1)..Len(headers) : headers[j] # h
        IN IF last <= Len(values) THEN values[last] ELSE << >>]

\* the data rows after the header
DataRows(allRows, header) ==
    LET kept == SelectSeq(SubSeq(allRows, header + 1, Len(allRows)),
                          LAMBDA values : ~IsEmptyRow(values))
    IN [k \in 1..Len(kept) |-> RowObject(allRows[header], kept[k])]

\* parseCSV after the tokenizer: the error thrown, or the data rows
parseCSV(allRows) ==
    IF Len(allRows) = 0 THEN [error |-> ERR_NO_DATA, rows |-> << >>]
    ELSE IF HeaderRowIndex(allRows) = 0 THEN [error |-> ERR_NO_HEADER, rows |-> << >>]
    ELSE [error |-> << >>, rows |-> DataRows(allRows, HeaderRowIndex(allRows))]

\* rawRows.map(processRow).filter(d => d !== null).filter(validateRow)
RECURSIVE ProcessRows(_)
ProcessRows(rows) ==
    IF rows = << >> THEN << >>
    ELSE LET deal == processRow(Head(rows))
         IN (IF deal # << >> /\ validateRow(deal[1]) THEN deal ELSE << >>)
            \o ProcessRows(Tail(rows))

\* the deals of an import: processed, validated, deduplicated, each with
\* the fallback summary (the summarization service is taken to be out of
\* reach; SpecSummary covers its answers)
ImportedDeals(rows) ==
    LET m == MergeAll(ProcessRows(rows), << >>, EmptyMap)
    IN [i \in 1..Len(m.dealMap) |-> AttachNotes(m.dealMap[i], m.notesMap)]

\* the amount as diffDeals of the diff model reads it, in tenths of a dollar
AcvTenths(acv) ==
    IF acv.scale = 0 THEN acv.mant * 10
    ELSE IF acv.scale = 1 THEN acv.mant
    ELSE acv.mant \div (10 ^ (acv.scale - 1))

\* the deals as the diff model holds them: the amount in tenths, and the
\* changeType and changes properties present (unset on a deal never diffed)
DiffView(ds) ==
    [i \in 1..Len(ds) |->
        [(ds[i] @@ [changeType |-> "none", changes |-> << >>])
            EXCEPT !.acv = AcvTenths(ds[i].acv)]]

\* diffDeals sets changeType and changes on the deals of the newer snapshot
TagDeals(ds, tagged) ==
    [i \in 1..Len(ds) |-> [tagged[i] EXCEPT !.acv = ds[i].acv]]

\* changesSummary = null
NullSummary == [null |-> TRUE]

\* junk lines "x" before the header
RECURSIVE JunkLines(_)
JunkLines(n) == IF n = 0 THEN << >> ELSE <<120, 10>> \o JunkLines(n - 1)

MaxTextLen == 4

\* '"', ',', line feed, carriage return and "a"
TextAlphabet == {34, 44, 10, 13, 97}

\* every text of up to MaxTextLen characters, and files with a header
CsvTexts ==
    SeqsUpTo(TextAlphabet, MaxTextLen)
    \cup { HeaderFirst, HeaderOnly, HeaderCrLf, HeaderInexact, OwnerOnly, OtherCurrency }
    \cup { JunkLines(n) \o HeaderFirst : n \in {HEADER_SCAN_ROWS - 1, HEADER_SCAN_ROWS} }

\* the snapshot on screen before the import: deal "a" of owner "x" in stage
\* "s", imported earlier
PreviousDeals ==
    ImportedDeals(<< (COL_DEAL_OWNER :> <<120>>) @@ (COL_DEAL_NAME :> <<97>>)
                         @@ (COL_STAGE :> <<115>>) >>)

\* processCSVData(csvText): the worker is started on the text
ParseInit ==
    /\ deals = << >>
    /\ idx = 1
    /\ dealMap = << >>
    /\ notesMap = EmptyMap
    /\ result = << >>
    /\ pc = "idle"
    /\ supabaseClient = TRUE
    /\ oldDeals = << >>
    /\ newDeals = << >>
    /\ diffPc = "idle"
    /\ SummaryIdle
    /\ EdgeIdle
    /\ RowIdle
    /\ ScoreIdle
    /\ LoadIdle
    /\ RunIdle
    /\ TwiceIdle
    /\ IngestIdle
    /\ KeyIdle
    /\ \E text \in CsvTexts : csvText = StripBom(text)
    /\ tokI = 1
    /\ tokRows = << >>
    /\ currentRow = << >>
    /\ currentField = << >>
    /\ inQuotes = FALSE
    /\ parsePc = "tokenize"
    /\ parseError = << >>
    /\ rawRows = << >>
    /\ workerDeals = << >>
    /\ \E loaded \in BOOLEAN :
          /\ allDeals = IF loaded THEN PreviousDeals ELSE << >>
          /\ filteredDeals = allDeals
          /\ localStorage = allDeals
          /\ changesSummary = NullSummary
    /\ remoteStore = << >>
    /\ alertMsg = << >>
    /\ isOnline \in BOOLEAN

ParseFrame ==
    /\ UNCHANGED <<mergeVars, edgeVars, rowVars, scoreVars, loadVars, runVars, twiceVars, ingestVars, keyVars>>
    /\ UNCHANGED <<supabaseClient, dealsNeedingSummary, batchI, allAiSummaries,
                   aiCalls, inflight>>
    /\ UNCHANGED <<oldDeals, newDeals, diffPc>>

TokenState ==
    [rows |-> tokRows, row |-> currentRow, field |-> currentField,
     inQuotes |-> inQuotes, i |-> tokI]

\* one character of the text is consumed (two for "" inside quotes and CRLF)
TokenizeChar ==
    /\ parsePc = "tokenize"
    /\ tokI <= Len(csvText)
    /\ LET st == TokenStep(TokenState, CharAt(csvText, tokI), CharAt(csvText, tokI + 1))
       IN /\ tokRows' = st.rows
          /\ currentRow' = st.row
          /\ currentField' = st.field
          /\ inQuotes' = st.inQuotes
          /\ tokI' = st.i
    /\ UNCHANGED <<csvText, parsePc, parseError, rawRows, workerDeals, filteredDeals, localStorage,
                   remoteStore, alertMsg, isOnline, allDeals, changesSummary>>
    /\ ParseFrame

\* the end of the text: the last field and row are flushed and parseCSV
\* looks for the header
TokenizeEnd ==
    /\ parsePc = "tokenize"
    /\ tokI > Len(csvText)
    /\ LET allRows == IF currentField # << >> \/ Len(currentRow) > 0
                      THEN Append(tokRows, Append(currentRow, currentField))
                      ELSE tokRows
           parsed == parseCSV(allRows)
       IN /\ tokRows' = allRows
          /\ parseError' = parsed.error
          /\ rawRows' = parsed.rows
          /\ parsePc' = IF parsed.error # << >> THEN "failed" ELSE "parsed"
    /\ UNCHANGED <<csvText, tokI, currentRow, currentField, inQuotes, workerDeals, filteredDeals,
                   localStorage, remoteStore, alertMsg, isOnline, allDeals, changesSummary>>
    /\ ParseFrame

\* mutant: a failed import empties the snapshot and the storage
ImportFails_SavesEmpty ==
    /\ parsePc = "failed"
    /\ alertMsg' = ALERT_ERROR_PREFIX \o parseError
    /\ parsePc' = "aborted"
    /\ allDeals' = << >>
    /\ filteredDeals' = << >>
    /\ localStorage' = << >>
    /\ UNCHANGED <<csvText, tokI, tokRows, currentRow, currentField, inQuotes, parseError,
                   rawRows, workerDeals, remoteStore, isOnline, changesSummary>>
    /\ ParseFrame

\* the worker posts { type: 'error' }: processCSVData catches and alerts
ImportFails ==
    /\ parsePc = "failed"
    /\ alertMsg' = ALERT_ERROR_PREFIX \o parseError
    /\ parsePc' = "aborted"
    /\ UNCHANGED <<csvText, tokI, tokRows, currentRow, currentField, inQuotes, parseError,
                   rawRows, workerDeals, filteredDeals, localStorage, remoteStore, isOnline,
                   allDeals, changesSummary>>
    /\ ParseFrame

\* the worker processes, validates and deduplicates the rows and posts
\* { type: 'complete', deals }
WorkerCompletes ==
    /\ parsePc = "parsed"
    /\ workerDeals' = ImportedDeals(rawRows)
    /\ parsePc' = "complete"
    /\ UNCHANGED <<csvText, tokI, tokRows, currentRow, currentField, inQuotes, parseError,
                   rawRows, filteredDeals, localStorage, remoteStore, alertMsg, isOnline,
                   allDeals, changesSummary>>
    /\ ParseFrame

\* processed.length === 0: alert and return
ImportNoDeals ==
    /\ parsePc = "complete"
    /\ workerDeals = << >>
    /\ alertMsg' = ALERT_NO_DEALS
    /\ parsePc' = "empty"
    /\ UNCHANGED <<csvText, tokI, tokRows, currentRow, currentField, inQuotes, parseError,
                   rawRows, workerDeals, filteredDeals, localStorage, remoteStore, isOnline,
                   allDeals, changesSummary>>
    /\ ParseFrame

\* the deals are uploaded when online, diffed against the loaded snapshot,
\* shown and saved
ImportCompletes ==
    /\ parsePc = "complete"
    /\ workerDeals # << >>
    /\ LET imported == workerDeals
           diff == diffDeals(DiffView(allDeals), DiffView(imported))
           processed == IF Len(allDeals) > 0 THEN TagDeals(imported, diff.tagged)
                        ELSE imported
       IN /\ \E uploadOk \in BOOLEAN, dealsOk \in BOOLEAN, saveOk \in BOOLEAN :
                /\ remoteStore' =
                       IF isOnline /\ uploadOk
                       THEN Append(remoteStore,
                                   [deal_count |-> Len(imported),
                                    deals |-> IF dealsOk THEN imported ELSE << >>])
                       ELSE remoteStore
                /\ alertMsg' = IF ~isOnline THEN alertMsg
                               ELSE IF ~uploadOk THEN ALERT_UPLOAD_FAILED
                               ELSE IF ~dealsOk THEN ALERT_INSERT_FAILED
                               ELSE alertMsg
                /\ localStorage' = IF saveOk THEN processed ELSE localStorage
          /\ changesSummary' =
                 IF Len(allDeals) > 0 THEN diff.counts ELSE NullSummary
          /\ allDeals' = processed
          /\ filteredDeals' = processed
    /\ parsePc' = "shown"
    /\ UNCHANGED <<csvText, tokI, tokRows, currentRow, currentField, inQuotes, parseError,
                   rawRows, workerDeals, isOnline>>
    /\ ParseFrame

ParseNext ==
    \/ TokenizeChar
    \/ TokenizeEnd
    \/ WorkerCompletes
    \/ ImportFails
    \/ ImportNoDeals
    \/ ImportCompletes

\* "discovery"
STAGE_DISCOVERY ==
    <<100, 105, 115, 99, 111, 118, 101, 114, 121>>

\* "qualification"
STAGE_QUALIFICATION ==
    <<113, 117, 97, 108, 105, 102, 105, 99, 97, 116, 105, 111, 110>>

\* "proposal"
STAGE_PROPOSAL ==
    <<112, 114, 111, 112, 111, 115, 97, 108>>

\* "negotiation"
STAGE_NEGOTIATION ==
    <<110, 101, 103, 111, 116, 105, 97, 116, 105, 111, 110>>

\* "verbal commit"
STAGE_VERBAL_COMMIT ==
    <<118, 101, 114, 98, 97, 108, 32, 99, 111, 109, 109, 105, 116>>

\* "closed won"
STAGE_CLOSED_WON ==
    <<99, 108, 111, 115, 101, 100, 32, 119, 111, 110>>

\* "constructor": a property every object literal inherits
KEY_CONSTRUCTOR ==
    <<99, 111, 110, 115, 116, 114, 117, 99, 116, 111, 114>>

\* "__proto__": inherited likewise
KEY_PROTO ==
    <<95, 95, 112, 114, 111, 116, 111, 95, 95>>

POSITIVE_KEYWORDS ==
    << <<98, 117, 100, 103, 101, 116, 32, 99, 111, 110, 102, 105, 114, 109, 101, 100>>,
       <<108, 101, 103, 97, 108, 32, 101, 110, 103, 97, 103, 101, 100>>,
       <<101, 120, 101, 99, 32, 115, 112, 111, 110, 115, 111, 114>>,
       <<116, 105, 109, 101, 108, 105, 110, 101, 32, 99, 111, 109, 109, 105, 116, 116, 101, 100>>,
       <<118, 101, 114, 98, 97, 108, 32, 99, 111, 109, 109, 105, 116>>,
       <<112, 114, 111, 99, 117, 114, 101, 109, 101, 110, 116>> >>

NEGATIVE_KEYWORDS ==
    << <<110, 111, 32, 114, 101, 115, 112, 111, 110, 115, 101>>,
       <<99, 105, 114, 99, 108, 105, 110, 103, 32, 98, 97, 99, 107>>,
       <<119, 97, 105, 116, 105, 110, 103, 32, 111, 110, 32, 97, 112, 112, 114, 111, 118, 97, 108>>,
       <<114, 101, 118, 105, 101, 119, 105, 110, 103, 32, 105, 110, 116, 101, 114, 110, 97, 108, 108, 121>>,
       <<112, 117, 115, 104, 101, 100>>,
       <<100, 101, 108, 97, 121, 101, 100>>,
       <<115, 116, 97, 108, 108, 101, 100>> >>

PUSH_SIGNALS ==
    << <<112, 117, 115, 104, 101, 100>>,
       <<100, 101, 108, 97, 121, 101, 100>>,
       <<109, 111, 118, 101, 100, 32, 111, 117, 116>>,
       <<114, 101, 115, 99, 104, 101, 100, 117, 108, 101, 100>> >>

\* the stage " Proposal "
StageProposalRaw ==
    <<32, 80, 114, 111, 112, 111, 115, 97, 108, 32>>

\* a stage outside the stage map
StageUnknown ==
    <<82, 101, 110, 101, 119, 97, 108>>

\* the stage "Constructor"
StageConstructorRaw ==
    <<67, 111, 110, 115, 116, 114, 117, 99, 116, 111, 114>>

\* the stage "Closed Won"
StageClosedWonRaw ==
    <<67, 108, 111, 115, 101, 100, 32, 87, 111, 110>>

\* the stage "Discovery"
StageDiscoveryRaw ==
    <<68, 105, 115, 99, 111, 118, 101, 114, 121>>

\* a note with every positive keyword
NoteAllPositive ==
    <<66, 117, 100, 103, 101, 116, 32, 99, 111, 110, 102, 105, 114, 109, 101, 100, 59, 32, 108, 101, 103, 97, 108, 32, 101, 110, 103, 97, 103, 101, 100, 59, 32, 101, 120, 101, 99, 32, 115, 112, 111, 110, 115, 111, 114, 59, 32, 116, 105, 109, 101, 108, 105, 110, 101, 32, 99, 111, 109, 109, 105, 116, 116, 101, 100, 59, 32, 118, 101, 114, 98, 97, 108, 32, 99, 111, 109, 109, 105, 116, 59, 32, 112, 114, 111, 99, 117, 114, 101, 109, 101, 110, 116>>

\* a note with every negative keyword and every push signal
NoteAllNegative ==
    <<78, 111, 32, 114, 101, 115, 112, 111, 110, 115, 101, 44, 32, 99, 105, 114, 99, 108, 105, 110, 103, 32, 98, 97, 99, 107, 44, 32, 119, 97, 105, 116, 105, 110, 103, 32, 111, 110, 32, 97, 112, 112, 114, 111, 118, 97, 108, 44, 32, 114, 101, 118, 105, 101, 119, 105, 110, 103, 32, 105, 110, 116, 101, 114, 110, 97, 108, 108, 121, 44, 32, 80, 85, 83, 72, 69, 68, 44, 32, 100, 101, 108, 97, 121, 101, 100, 44, 32, 115, 116, 97, 108, 108, 101, 100, 44, 32, 109, 111, 118, 101, 100, 32, 111, 117, 116, 44, 32, 114, 101, 115, 99, 104, 101, 100, 117, 108, 101, 100>>

\* a note with one push signal
NotePushed ==
    <<67, 108, 111, 115, 101, 32, 112, 117, 115, 104, 101, 100, 32, 116, 111, 32, 81, 51>>

\* a note without keywords
NotePlain ==
    <<109, 101, 116, 32, 116, 104, 101, 32, 116, 101, 97, 109>>
\* ------------------------------------------------------------------------
\* Deal health score: buildContext and computeDealHealthScore
\* ------------------------------------------------------------------------
\* a score is a number, NaN, or an object found where a number was expected
Number(n) == <<"number", n>>

NaN == <<"NaN">>

\* Object (typeof "function") or Object.prototype: what map[key] yields for
\* a key the map only inherits
InheritedValue == <<"object">>

IsNumber(v) == v[1] = "number"

\* the lower-case names every object literal answers `key in map` for
INHERITED_KEYS == {KEY_CONSTRUCTOR, KEY_PROTO}

ComponentKeys ==
    {"stageProbability", "velocity", "activityRecency", "closeDateIntegrity", "acv",
     "notesSignal"}

defaultWeights ==
    [stageProbability |-> 25, velocity |-> 20, activityRecency |-> 15,
     closeDateIntegrity |-> 10, acv |-> 15, notesSignal |-> 15]

DEFAULT_STAGE_SCORES ==
    (STAGE_DISCOVERY :> 20) @@ (STAGE_QUALIFICATION :> 35) @@ (STAGE_PROPOSAL :> 55)
        @@ (STAGE_NEGOTIATION :> 75) @@ (STAGE_VERBAL_COMMIT :> 90)

\* (deal.stage || '').trim().toLowerCase()
StageKey(stage) == ToLower(Trim(stage))

\* if (!stage) return 35; return (key in map) ? map[key] : 35
scoreStageProbability(stage, stageScoreMap) ==
    IF stage = << >> THEN Number(35)
    ELSE LET key == StageKey(stage)
         IN IF key \in DOMAIN stageScoreMap THEN Number(stageScoreMap[key])
            ELSE IF key \in INHERITED_KEYS THEN InheritedValue
            ELSE Number(35)

\* typeof deal.daysSince === 'number' ? deal.daysSince : 0
DaysOrZero(days) == IF days = << >> THEN 0 ELSE days[1]

\* medianDaysInStage holds twice the median, which may end in .5. An
\* inherited key yields an object: it is truthy, not <= 0, and no ratio
\* with it is <= 1.5
scoreVelocity(deal, medianDaysInStage) ==
    LET stage == StageKey(deal.stage)
    IN IF stage \in DOMAIN medianDaysInStage
       THEN LET twice == medianDaysInStage[stage]
                daysSince == DaysOrZero(deal.daysSince)
            IN IF twice <= 0 THEN 70
               ELSE IF 5 * daysSince <= 2 * twice THEN 100
               ELSE IF 5 * daysSince <= 3 * twice THEN 70
               ELSE IF 4 * daysSince <= 3 * twice THEN 40
               ELSE 10
       ELSE IF stage \in INHERITED_KEYS THEN 10
       ELSE 70

SENTINEL_DAYS == 999

scoreActivityRecency(daysSince) ==
    IF daysSince = << >> \/ daysSince[1] >= SENTINEL_DAYS THEN 40
    ELSE IF daysSince[1] <= 7 THEN 100
    ELSE IF daysSince[1] <= 14 THEN 70
    ELSE IF daysSince[1] <= 30 THEN 40
    ELSE 10

\* the keywords of the list found in the text
Matched(text, keywords) == SelectSeq(keywords, LAMBDA k : Includes(text, k))

Clamp(lo, hi, n) == IF n < lo THEN lo ELSE IF n > hi THEN hi ELSE n

scoreCloseDateIntegrity(deal) ==
    LET daysUntil == deal.daysUntilClosing
        base == IF daysUntil = << >> THEN 60
                ELSE IF daysUntil[1] < 0
                THEN (IF StageKey(deal.stage) = STAGE_CLOSED_WON THEN 100 ELSE 10)
                ELSE IF daysUntil[1] <= 30 THEN 70
                ELSE 100
        text == ToLower(deal.notesCanonical \o <<32>> \o deal.noteContent)
        pushCount == Len(Matched(text, PUSH_SIGNALS))
    IN Clamp(10, 100, base - pushCount * 20)

\* percentile >= 0.8 is 5 * below >= 4 * length; >= 0.4 is 5 * below >= 2 * length
scoreAcv(acv, acvDistribution) ==
    IF acv = 0 THEN 40
    ELSE IF Len(acvDistribution) = 0 THEN 40
    ELSE LET below == Cardinality({i \in 1..Len(acvDistribution) : acvDistribution[i] < acv})
         IN IF 5 * below >= 4 * Len(acvDistribution) THEN 100
            ELSE IF 5 * below >= 2 * Len(acvDistribution) THEN 70
            ELSE 40

scoreNotesSignal(noteContent, notesCanonical) ==
    LET text == ToLower(noteContent \o <<32>> \o notesCanonical)
        positiveMatched == Matched(text, POSITIVE_KEYWORDS)
        negativeMatched == Matched(text, NEGATIVE_KEYWORDS)
    IN [score |-> Clamp(0, 100, 50 + 10 * Len(positiveMatched) - 10 * Len(negativeMatched)),
        positive |-> positiveMatched,
        negative |-> negativeMatched]

\* vals.sort((a, b) => a - b)
RECURSIVE SortNumbers(_)
SortNumbers(ns) ==
    IF ns = << >> THEN << >>
    ELSE LET i == CHOOSE k \in 1..Len(ns) : \A j \in 1..Len(ns) : ns[k] <= ns[j]
             rest == [k \in 1..(Len(ns) - 1) |-> IF k < i THEN ns[k] ELSE ns[k + 1]]
         IN <<ns[i]>> \o SortNumbers(rest)

\* the days since modification collected for a stage: the stage is not
\* empty, the days are known and below the sentinel
StageGroup(snapshot, stage) ==
    LET of == SelectSeq(snapshot, LAMBDA d :
                  /\ StageKey(d.stage) = stage
                  /\ d.daysSince # << >>
                  /\ d.daysSince[1] < SENTINEL_DAYS)
    IN [i \in 1..Len(of) |-> of[i].daysSince[1]]

\* twice the median of the group
TwiceMedian(group) ==
    LET vals == SortNumbers(group)
        mid == Len(vals) \div 2
    IN IF Len(vals) % 2 = 0 THEN vals[mid] + vals[mid + 1] ELSE 2 * vals[mid + 1]

\* Object.keys(stageGroups): every stage with a sample
MedianStages(snapshot) ==
    {s \in {StageKey(snapshot[i].stage) : i \in 1..Len(snapshot)} :
        s # << >> /\ Len(StageGroup(snapshot, s)) >= 1}

buildContext(snapshot) ==
    [acvDistribution |->
        SortNumbers([i \in 1..Len(SelectSeq(snapshot, LAMBDA d : d.acv > 0)) |->
                        SelectSeq(snapshot, LAMBDA d : d.acv > 0)[i].acv]),
     medianDaysInStage |->
        [s \in MedianStages(snapshot) |-> TwiceMedian(StageGroup(snapshot, s))]]

\* context || { acvDistribution: [], medianDaysInStage: {} }
EmptyContext == [acvDistribution |-> << >>, medianDaysInStage |-> [s \in {} |-> 0]]

\* weights[key] || 0
WeightOf(weights, key) == IF key \in DOMAIN weights THEN weights[key] ELSE 0

\* components[key] || 0, for a numeric component
ComponentOf(components, key) ==
    IF key \in DOMAIN components THEN components[key][2] ELSE 0

RECURSIVE WeightedSum(_, _, _)
WeightedSum(keys, weights, components) ==
    IF keys = {} THEN 0
    ELSE LET k == CHOOSE x \in keys : TRUE
         IN weights[k] * ComponentOf(components, k)
            + WeightedSum(keys \ {k}, weights, components)

RECURSIVE TotalWeight(_, _)
TotalWeight(keys, weights) ==
    IF keys = {} THEN 0
    ELSE LET k == CHOOSE x \in keys : TRUE
         IN weights[k] + TotalWeight(keys \ {k}, weights)

\* Math.round(n / d) for d > 0: halves round up
RoundRatio(n, d) == (2 * n + d) \div (2 * d)

\* mutant: the weighted sum is divided by 100
Composite_Unnormalized(weights, components) ==
    LET keys == DOMAIN weights
        totalWeight == TotalWeight(keys, weights)
        numeric == \A k \in keys : k \in DOMAIN components => IsNumber(components[k])
    IN IF totalWeight > 0
       THEN IF numeric
            THEN Number(Clamp(0, 100, RoundRatio(WeightedSum(keys, weights, components), 100)))
            ELSE NaN
       ELSE Number(0)

\* the loop over Object.keys(weights), Math.round and the clamp; a product
\* with a component that is not a number is NaN, and so is all that follows
Composite(weights, components) ==
    LET keys == DOMAIN weights
        totalWeight == TotalWeight(keys, weights)
        numeric == \A k \in keys : k \in DOMAIN components => IsNumber(components[k])
    IN IF totalWeight > 0
       THEN IF numeric
            THEN Number(Clamp(0, 100,
                     RoundRatio(WeightedSum(keys, weights, components), totalWeight)))
            ELSE NaN
       ELSE Number(0)

\* config is { weights, stageScoreMap }, each absent (<< >>) or given
computeDealHealthScore(deal, context, config) ==
    LET weights == IF config.weights # << >> THEN config.weights[1] ELSE defaultWeights
        stageScoreMap == IF config.stageScoreMap # << >> THEN config.stageScoreMap[1]
                         ELSE DEFAULT_STAGE_SCORES
        ctx == IF context # << >> THEN context[1] ELSE EmptyContext
        notesResult == scoreNotesSignal(deal.noteContent, deal.notesCanonical)
        components ==
            [stageProbability |-> scoreStageProbability(deal.stage, stageScoreMap),
             velocity |-> Number(scoreVelocity(deal, ctx.medianDaysInStage)),
             activityRecency |-> Number(scoreActivityRecency(deal.daysSince)),
             closeDateIntegrity |-> Number(scoreCloseDateIntegrity(deal)),
             acv |-> Number(scoreAcv(deal.acv, ctx.acvDistribution)),
             notesSignal |-> Number(notesResult.score)]
    IN [score |-> Composite(weights, components),
        components |-> components,
        debug |-> [notesKeywordsMatched |->
                      [positive |-> notesResult.positive, negative |-> notesResult.negative]]]

\* the deals of a snapshot, as the context reads them
ContextDeal(stage, days, acv) ==
    [stage |-> stage, daysSince |-> days, daysUntilClosing |-> << >>, acv |-> acv,
     noteContent |-> << >>, notesCanonical |-> << >>]

ContextDeals ==
    { ContextDeal(StageProposalRaw, <<10>>, 100),
      ContextDeal(STAGE_PROPOSAL, <<21>>, 500),
      ContextDeal(STAGE_PROPOSAL, <<40>>, 0),
      ContextDeal(StageDiscoveryRaw, <<SENTINEL_DAYS>>, 300),
      ContextDeal(<< >>, <<7>>, 0 - 50) }

MaxScoreDeals == 3

ScoreSnapshots == SeqsUpTo(ContextDeals, MaxScoreDeals)

\* the deals scored
ScoredDeal(stage, days, until, acv, note, canonical) ==
    [stage |-> stage, daysSince |-> days, daysUntilClosing |-> until, acv |-> acv,
     noteContent |-> note, notesCanonical |-> canonical]

ScoredDeals ==
    { ScoredDeal(StageProposalRaw, <<16>>, <<45>>, 100, NotePlain, NotePlain),
      ScoredDeal(StageProposalRaw, <<12>>, <<10>>, 500, NoteAllPositive, << >>),
      ScoredDeal(STAGE_PROPOSAL, <<60>>, <<0 - 5>>, 0, << >>, NoteAllNegative),
      ScoredDeal(StageDiscoveryRaw, << >>, << >>, 300, NotePushed, << >>),
      ScoredDeal(StageClosedWonRaw, <<3>>, <<0 - 1>>, 400, << >>, << >>),
      ScoredDeal(StageUnknown, <<SENTINEL_DAYS>>, <<30>>, 0 - 50, NotePlain, << >>),
      ScoredDeal(<< >>, <<8>>, <<31>>, 150, << >>, NotePushed),
      ScoredDeal(StageConstructorRaw, <<20>>, <<45>>, 100, NotePlain, << >>),
      ScoredDeal(STAGE_PROPOSAL, <<SENTINEL_DAYS>>, <<20>>, 200, << >>, << >>) }

EqualWeights == [k \in ComponentKeys |-> 1]

\* config: each field is absent or supplied
ScoreConfig(weights, stageScoreMap, positiveKeywords, negativeKeywords) ==
    [weights |-> weights, stageScoreMap |-> stageScoreMap,
     positiveKeywords |-> positiveKeywords, negativeKeywords |-> negativeKeywords]

\* the configurations a caller passes: none; weights that do not sum to
\* 100; weights for some components only; zero weights; a negative weight;
\* a stage map of the caller's; keyword lists of the caller's (one positive
\* keyword, no negative keyword)
ScoreConfigs ==
    { ScoreConfig(<< >>, << >>, << >>, << >>),
      ScoreConfig(<<EqualWeights>>, << >>, << >>, << >>),
      ScoreConfig(<<[k \in ComponentKeys |-> 3 * defaultWeights[k]]>>, << >>, << >>, << >>),
      ScoreConfig(<<[velocity |-> 50, notesSignal |-> 25]>>, << >>, << >>, << >>),
      ScoreConfig(<<[k \in ComponentKeys |-> 0]>>, << >>, << >>, << >>),
      ScoreConfig(<<[stageProbability |-> 30, velocity |-> 0 - 10]>>, << >>, << >>, << >>),
      ScoreConfig(<< >>, <<(STAGE_PROPOSAL :> 150) @@ (STAGE_DISCOVERY :> 20)>>, << >>, << >>),
      ScoreConfig(<< >>, << >>, << <<NotePlain>> >>, << << >> >>) }

ScoreInit ==
    /\ MergeIdle
    /\ SummaryIdle
    /\ EdgeIdle
    /\ DiffIdle
    /\ RowIdle
    /\ ParseIdle
    /\ LoadIdle
    /\ RunIdle
    /\ TwiceIdle
    /\ IngestIdle
    /\ KeyIdle
    /\ scoreDeals \in ScoreSnapshots
    /\ scoredDeal \in ScoredDeals
    /\ scoreConfig \in ScoreConfigs
    /\ scoreContext = << >>
    /\ scoreResult = << >>
    /\ scorePc = "start"

\* buildContext(deals)
BuildContext ==
    /\ scorePc = "start"
    /\ scoreContext' = <<buildContext(scoreDeals)>>
    /\ scorePc' = "context"
    /\ UNCHANGED <<scoreDeals, scoredDeal, scoreConfig, scoreResult>>
    /\ UNCHANGED <<mergeVars, summaryVars, edgeVars, diffVars, rowVars, parseVars, loadVars, runVars, twiceVars, ingestVars, keyVars>>

\* computeDealHealthScore(deal, context, config)
ScoreDeal ==
    /\ scorePc = "context"
    /\ scoreResult' = <<computeDealHealthScore(scoredDeal, scoreContext, scoreConfig)>>
    /\ scorePc' = "scored"
    /\ UNCHANGED <<scoreDeals, scoredDeal, scoreConfig, scoreContext>>
    /\ UNCHANGED <<mergeVars, summaryVars, edgeVars, diffVars, rowVars, parseVars, loadVars, runVars, twiceVars, ingestVars, keyVars>>

\* computeDealHealthScore(deal, null, config)
ScoreWithoutContext ==
    /\ scorePc = "start"
    /\ scoreResult' = <<computeDealHealthScore(scoredDeal, << >>, scoreConfig)>>
    /\ scorePc' = "scored"
    /\ UNCHANGED <<scoreDeals, scoredDeal, scoreConfig, scoreContext>>
    /\ UNCHANGED <<mergeVars, summaryVars, edgeVars, diffVars, rowVars, parseVars, loadVars, runVars, twiceVars, ingestVars, keyVars>>

ScoreNext == BuildContext \/ ScoreDeal \/ ScoreWithoutContext

\* ------------------------------------------------------------------------
\* Loading deals from local storage and from the remote store. Dates are
\* day numbers (local midnights); null is << >>.
\* ------------------------------------------------------------------------
URGENCY_FRESH == 14
URGENCY_WARNING == 30
URGENCY_STALE == 60
CLOSING_SOON_DAYS == 14

\* if (!date) return 999; Math.max(0, Math.floor((today - date) / day))
calculateDaysSince(date, now) ==
    IF date = << >> THEN SENTINEL_DAYS
    ELSE IF now - date[1] < 0 THEN 0 ELSE now - date[1]

\* if (!date) return null; Math.ceil((date - today) / day)
calculateDaysUntilClosing(date, now) ==
    IF date = << >> THEN << >> ELSE <<date[1] - now>>

getUrgencyLevel(days) ==
    IF days <= URGENCY_FRESH THEN "fresh"
    ELSE IF days <= URGENCY_WARNING THEN "warning"
    ELSE IF days <= URGENCY_STALE THEN "stale"
    ELSE "critical"

getClosingStatus(daysUntil) ==
    IF daysUntil = << >> THEN "null"
    ELSE IF daysUntil[1] < 0 THEN "overdue"
    ELSE IF daysUntil[1] <= CLOSING_SOON_DAYS THEN "soon"
    ELSE "normal"

\* the four derived fields of a deal with these dates
Derived(modifiedDate, closingDate, now) ==
    [daysSince |-> calculateDaysSince(modifiedDate, now),
     urgency |-> getUrgencyLevel(calculateDaysSince(modifiedDate, now)),
     daysUntilClosing |-> calculateDaysUntilClosing(closingDate, now),
     closingStatus |-> getClosingStatus(calculateDaysUntilClosing(closingDate, now))]

\* a deal in memory
InternalDeal(dealName, modifiedDate, closingDate, derived) ==
    [dealName |-> dealName, modifiedDate |-> modifiedDate, closingDate |-> closingDate,
     daysSince |-> derived.daysSince, urgency |-> derived.urgency,
     daysUntilClosing |-> derived.daysUntilClosing,
     closingStatus |-> derived.closingStatus]

\* deals.map(deal => ({...deal, closingDate, modifiedDate})): only the
\* Date objects are restored
RestoreDeal_KeepsPersisted(deal, now) == deal

\* deals.map(deal => ({...deal, closingDate, modifiedDate, daysSince,
\* urgency, daysUntilClosing, closingStatus}))
RestoreDeal(deal, now) ==
    InternalDeal(deal.dealName, deal.modifiedDate, deal.closingDate,
                 Derived(deal.modifiedDate, deal.closingDate, now))

\* loadFromStorage(): null without an item, the restored deals otherwise
loadFromStorage(data, now) ==
    IF data = << >> THEN << >>
    ELSE <<[i \in 1..Len(data[1]) |-> RestoreDeal(data[1][i], now)]>>

supabaseRowToInternal(row, now) ==
    InternalDeal(row.deal_name, row.modified_date, row.closing_date,
                 Derived(row.modified_date, row.closing_date, now))

\* loadUploadById: rawDeals.map(supabaseRowToInternal)
loadUploadById(rows, now) ==
    [i \in 1..Len(rows) |-> supabaseRowToInternal(rows[i], now)]

\* the first day of the clock and how many days may pass
FirstDay == 100
MaxDaysPassed == 2
MaxStored == 2

UploadRow(name, modified, closing) ==
    [deal_name |-> name, modified_date |-> modified, closing_date |-> closing]

\* rows without dates and rows whose dates lie on both sides of the
\* thresholds as the days pass
UploadRowValues ==
    { UploadRow(<<65>>, << >>, << >>),
      UploadRow(<<65>>, <<FirstDay - 14>>, <<FirstDay>>),
      UploadRow(<<66>>, <<FirstDay - 30>>, <<FirstDay + 15>>),
      UploadRow(<<66>>, <<FirstDay - 59>>, << >>),
      UploadRow(<<67>>, <<FirstDay + 1>>, <<FirstDay + 14>>) }

UploadSnapshots == SeqsUpTo(UploadRowValues, MaxStored)

\* what saveToStorage wrote on the first day, or on an earlier day
StoredSnapshots ==
    { [i \in 1..Len(rows) |->
          InternalDeal(rows[i].deal_name, rows[i].modified_date, rows[i].closing_date,
                       Derived(rows[i].modified_date, rows[i].closing_date, savedOn))] :
        rows \in {r \in UploadSnapshots : Len(r) <= 1}, savedOn \in {FirstDay - 1, FirstDay} }

LoadInit ==
    /\ MergeIdle
    /\ SummaryIdle
    /\ EdgeIdle
    /\ DiffIdle
    /\ RowIdle
    /\ ParseIdle
    /\ ScoreIdle
    /\ RunIdle
    /\ TwiceIdle
    /\ IngestIdle
    /\ KeyIdle
    /\ today = FirstDay
    /\ storageData \in {<< >>} \cup {<<s>> : s \in StoredSnapshots}
    /\ uploadRows \in UploadSnapshots
    /\ loadedDeals = << >>
    /\ loadedOn = FirstDay
    /\ loadedFrom = "none"

\* midnight passes
DayPasses ==
    /\ today < FirstDay + MaxDaysPassed
    /\ today' = today + 1
    /\ UNCHANGED <<storageData, uploadRows, loadedDeals, loadedOn, loadedFrom>>
    /\ UNCHANGED <<mergeVars, summaryVars, edgeVars, diffVars, rowVars, parseVars, scoreVars, runVars, twiceVars, ingestVars, keyVars>>

\* loadFromLocalStorageFallback: savedDeals = loadFromStorage(); shown when
\* there are any
LoadFromLocalStorageFallback ==
    /\ LET savedDeals == loadFromStorage(storageData, today)
       IN /\ savedDeals # << >>
          /\ Len(savedDeals[1]) > 0
          /\ loadedDeals' = savedDeals[1]
    /\ loadedOn' = today
    /\ loadedFrom' = "local"
    /\ UNCHANGED <<today, storageData, uploadRows>>
    /\ UNCHANGED <<mergeVars, summaryVars, edgeVars, diffVars, rowVars, parseVars, scoreVars, runVars, twiceVars, ingestVars, keyVars>>

\* handleDateSelection without a comparison: primaryDeals =
\* loadUploadById(primaryId); saveToStorage(allDeals)
LoadSelectedUpload ==
    /\ loadedDeals' = loadUploadById(uploadRows, today)
    /\ storageData' = <<loadedDeals'>>
    /\ loadedOn' = today
    /\ loadedFrom' = "remote"
    /\ UNCHANGED <<today, uploadRows>>
    /\ UNCHANGED <<mergeVars, summaryVars, edgeVars, diffVars, rowVars, parseVars, scoreVars, runVars, twiceVars, ingestVars, keyVars>>

LoadNext == DayPasses \/ LoadFromLocalStorageFallback \/ LoadSelectedUpload

\* ------------------------------------------------------------------------
\* Concurrent runs of handleDateSelection and processCSVData. Every await
\* is a point where another run may start or continue. A snapshot is
\* represented by where its deals came from.
\* ------------------------------------------------------------------------
MaxRuns == 3
MaxUploads == 2

\* no comparison selected
NO_COMPARE == 0

UploadIds == 1..MaxUploads

\* what fetchDealsByUploadId returns: the rows of the upload, or [] after
\* an error that is not an abort
FetchedDeals(uploadId, failed) ==
    IF failed THEN << >> ELSE <<[upload_id |-> uploadId]>>

\* the deals an import produced
ProcessedDeals(run) == <<[file |-> run]>>

\* diffDeals(baseline, newer), by the snapshots compared
SummaryOfDiff(baseline, newer) == [baseline |-> baseline, newer |-> newer]

RunFrame ==
    /\ UNCHANGED <<mergeVars, edgeVars, rowVars, scoreVars, loadVars, twiceVars, ingestVars, keyVars>>
    /\ UNCHANGED <<supabaseClient, dealsNeedingSummary, batchI, allAiSummaries,
                   aiCalls, inflight>>
    /\ UNCHANGED <<oldDeals, newDeals, diffPc>>
    /\ UNCHANGED <<csvText, tokI, tokRows, currentRow, currentField, inQuotes, parsePc,
                   parseError, rawRows, workerDeals, remoteStore, alertMsg, isOnline>>

AppUnchanged == UNCHANGED <<allDeals, filteredDeals, changesSummary, localStorage>>

RunInit ==
    /\ MergeIdle
    /\ SummaryIdle
    /\ EdgeIdle
    /\ DiffIdle
    /\ RowIdle
    /\ ParseIdle
    /\ ScoreIdle
    /\ LoadIdle
    /\ RunIdle
    /\ TwiceIdle
    /\ IngestIdle
    /\ KeyIdle

\* allDeals = deals; filteredDeals = [...allDeals]; saveToStorage(allDeals),
\* which may fail and is caught; then the finally block hides the overlay
Display(shown, summary) ==
    /\ changesSummary' = summary
    /\ allDeals' = shown
    /\ filteredDeals' = shown
    /\ \E saveOk \in BOOLEAN : localStorage' = IF saveOk THEN shown ELSE localStorage
    /\ loadingOverlay' = "hidden"

\* handleDateSelection up to its first await: abort the pending selection,
\* make a new controller, showLoading(), start loading the primary upload
HandleDateSelection ==
    /\ Len(runs) < MaxRuns
    /\ \E primaryId \in UploadIds, compareId \in {NO_COMPARE} \cup UploadIds :
          runs' = Append(runs, [kind |-> "select", pc |-> "primary",
                                primaryId |-> primaryId, compareId |-> compareId,
                                primaryDeals |-> << >>])
    /\ abortedSignals' = IF dateSelectionController # 0
                         THEN abortedSignals \cup {dateSelectionController}
                         ELSE abortedSignals
    /\ dateSelectionController' = Len(runs) + 1
    /\ loadingOverlay' = "shown"
    /\ AppUnchanged
    /\ RunFrame

\* the await of loadUploadById(primaryId, signal) ends: with an AbortError
\* when the signal was aborted, with another exception, or with the deals;
\* without a comparison the run goes on to display them
PrimarySettles ==
    \E r \in DOMAIN runs :
        /\ runs[r].kind = "select"
        /\ runs[r].pc = "primary"
        /\ \/ /\ r \in abortedSignals
              /\ runs' = [runs EXCEPT ![r].pc = "aborted"]
              /\ loadingOverlay' = "hidden"
              /\ AppUnchanged
           \/ /\ r \notin abortedSignals
              /\ runs' = [runs EXCEPT ![r].pc = "failed"]
              /\ loadingOverlay' = "hidden"
              /\ AppUnchanged
           \/ /\ r \notin abortedSignals
              /\ runs[r].compareId # NO_COMPARE
              /\ \E failed \in BOOLEAN :
                    runs' = [runs EXCEPT ![r].pc = "compare",
                                         ![r].primaryDeals =
                                             FetchedDeals(runs[r].primaryId, failed)]
              /\ UNCHANGED loadingOverlay
              /\ AppUnchanged
           \/ /\ r \notin abortedSignals
              /\ runs[r].compareId = NO_COMPARE
              /\ \E failed \in BOOLEAN :
                    /\ runs' = [runs EXCEPT ![r].pc = "applied",
                                            ![r].primaryDeals =
                                                FetchedDeals(runs[r].primaryId, failed)]
                    /\ Display(FetchedDeals(runs[r].primaryId, failed), NullSummary)
        /\ UNCHANGED <<dateSelectionController, abortedSignals>>
        /\ RunFrame

\* the await of loadUploadById(compareId, signal) ends; the run diffs and
\* displays unless it was aborted or threw
CompareSettles ==
    \E r \in DOMAIN runs :
        /\ runs[r].kind = "select"
        /\ runs[r].pc = "compare"
        /\ \/ /\ r \in abortedSignals
              /\ runs' = [runs EXCEPT ![r].pc = "aborted"]
              /\ loadingOverlay' = "hidden"
              /\ AppUnchanged
           \/ /\ r \notin abortedSignals
              /\ runs' = [runs EXCEPT ![r].pc = "failed"]
              /\ loadingOverlay' = "hidden"
              /\ AppUnchanged
           \/ /\ r \notin abortedSignals
              /\ runs' = [runs EXCEPT ![r].pc = "applied"]
              /\ \E failed \in BOOLEAN :
                    Display(runs[r].primaryDeals,
                            SummaryOfDiff(FetchedDeals(runs[r].compareId, failed),
                                          runs[r].primaryDeals))
        /\ UNCHANGED <<dateSelectionController, abortedSignals>>
        /\ RunFrame

\* processCSVData up to its first await: showLoading('Processing...') and
\* runIngestWorker(csvText, allDeals)
ProcessCSVStarts ==
    /\ Len(runs) < MaxRuns
    /\ runs' = Append(runs, [kind |-> "import", pc |-> "worker",
                             primaryId |-> 0, compareId |-> NO_COMPARE,
                             primaryDeals |-> << >>])
    /\ loadingOverlay' = "shown"
    /\ UNCHANGED <<dateSelectionController, abortedSignals>>
    /\ AppUnchanged
    /\ RunFrame

\* processCSVData after its last await: an error is alerted, an import
\* without deals is alerted, otherwise the deals are diffed against
\* allDeals and displayed; the finally block hides the overlay
ProcessCSVSettles ==
    \E r \in DOMAIN runs :
        /\ runs[r].kind = "import"
        /\ runs[r].pc = "worker"
        /\ \/ /\ runs' = [runs EXCEPT ![r].pc = "failed"]
              /\ loadingOverlay' = "hidden"
              /\ AppUnchanged
           \/ /\ runs' = [runs EXCEPT ![r].pc = "empty"]
              /\ loadingOverlay' = "hidden"
              /\ AppUnchanged
           \/ /\ runs' = [runs EXCEPT ![r].pc = "applied",
                                      ![r].primaryDeals = ProcessedDeals(r)]
              /\ Display(ProcessedDeals(r),
                         IF Len(allDeals) > 0
                         THEN SummaryOfDiff(allDeals, ProcessedDeals(r))
                         ELSE NullSummary)
        /\ UNCHANGED <<dateSelectionController, abortedSignals>>
        /\ RunFrame

RunNext ==
    \/ HandleDateSelection
    \/ PrimarySettles
    \/ CompareSettles
    \/ ProcessCSVStarts
    \/ ProcessCSVSettles

\* ------------------------------------------------------------------------
\* The whole ingestion pipeline as a function of the text, the reference
\* date, the deals already on screen and the answer of the summarization
\* service
\* ------------------------------------------------------------------------
\* three rows of deal "a" of owner "x", two of them with the same note, and one row of deal "a" of owner "y"
RepeatedDeals ==
    <<68, 101, 97, 108, 32, 79, 119, 110, 101, 114, 44, 68, 101, 97, 108, 32, 78, 97, 109, 101, 44, 83, 116, 97, 103, 101, 44, 65, 110, 110, 117, 97, 108, 32, 67, 111, 110, 116, 114, 97, 99, 116, 32, 86, 97, 108, 117, 101, 44, 67, 108, 111, 115, 105, 110, 103, 32, 68, 97, 116, 101, 44, 77, 111, 100, 105, 102, 105, 101, 100, 32, 84, 105, 109, 101, 32, 40, 78, 111, 116, 101, 115, 41, 44, 78, 111, 116, 101, 32, 67, 111, 110, 116, 101, 110, 116, 10, 120, 44, 97, 44, 80, 114, 111, 112, 111, 115, 97, 108, 44, 49, 48, 48, 44, 51, 44, 49, 44, 98, 117, 100, 103, 101, 116, 32, 99, 111, 110, 102, 105, 114, 109, 101, 100, 10, 120, 44, 97, 44, 80, 114, 111, 112, 111, 115, 97, 108, 44, 49, 48, 48, 44, 51, 44, 50, 44, 112, 117, 115, 104, 101, 100, 10, 121, 44, 97, 44, 68, 105, 115, 99, 111, 118, 101, 114, 121, 44, 53, 48, 44, 44, 49, 44, 34, 78, 111, 32, 114, 101, 115, 112, 111, 110, 115, 101, 34, 10, 120, 44, 97, 44, 80, 114, 111, 112, 111, 115, 97, 108, 44, 49, 48, 48, 44, 51, 44, 49, 44, 98, 117, 100, 103, 101, 116, 32, 99, 111, 110, 102, 105, 114, 109, 101, 100, 10>>

\* an export imported earlier: deals "b" and "c" of owner "z"
EarlierExport ==
    <<68, 101, 97, 108, 32, 79, 119, 110, 101, 114, 44, 68, 101, 97, 108, 32, 78, 97, 109, 101, 44, 83, 116, 97, 103, 101, 44, 65, 110, 110, 117, 97, 108, 32, 67, 111, 110, 116, 114, 97, 99, 116, 32, 86, 97, 108, 117, 101, 44, 67, 108, 111, 115, 105, 110, 103, 32, 68, 97, 116, 101, 44, 77, 111, 100, 105, 102, 105, 101, 100, 32, 84, 105, 109, 101, 32, 40, 78, 111, 116, 101, 115, 41, 44, 78, 111, 116, 101, 32, 67, 111, 110, 116, 101, 110, 116, 10, 122, 44, 98, 44, 80, 114, 111, 112, 111, 115, 97, 108, 44, 53, 48, 48, 44, 51, 44, 49, 44, 115, 116, 97, 108, 108, 101, 100, 10, 122, 44, 99, 44, 80, 114, 111, 112, 111, 115, 97, 108, 44, 54, 48, 48, 44, 51, 44, 50, 44, 10>>

\* a summary returned by the summarization service
ServiceSummary ==
    <<111, 107>>

\* the loop of parseCSVText from position st.i up to position last
RECURSIVE TokenizeUpTo(_, _, _)
TokenizeUpTo(text, st, last) ==
    IF st.i > last \/ st.i > Len(text) THEN st
    ELSE TokenizeUpTo(text, TokenStep(st, CharAt(text, st.i), CharAt(text, st.i + 1)), last)

\* the loop from position st.i to the end of the text, evaluated in
\* stretches of 32 characters
RECURSIVE TokenizeFrom(_, _)
TokenizeFrom(text, st) ==
    IF st.i > Len(text) THEN st
    ELSE TokenizeFrom(text, TokenizeUpTo(text, st, st.i + 31))

\* parseCSVText(text): the rows, the last field and row flushed
parseCSVText(text) ==
    LET st == TokenizeFrom(text, [rows |-> << >>, row |-> << >>, field |-> << >>,
                                  inQuotes |-> FALSE, i |-> 1])
    IN IF st.field # << >> \/ Len(st.row) > 0
       THEN Append(st.rows, Append(st.row, st.field))
       ELSE st.rows

\* the worker: parse, process, validate, deduplicate, canonical notes and
\* hashes; an error of parseCSV leaves no deals
WorkerDeals(text) ==
    LET parsed == parseCSV(parseCSVText(StripBom(text)))
        m == MergeAll(ProcessRows(parsed.rows), << >>, EmptyMap)
    IN IF parsed.error # << >> THEN [deals |-> << >>, notesMap |-> EmptyMap]
       ELSE [deals |-> [i \in 1..Len(m.dealMap) |->
                          AttachCanonical(m.dealMap[i], m.notesMap) @@ m.dealMap[i]],
             notesMap |-> m.notesMap]

\* applyAISummaries: a deal whose hash is unchanged keeps the summary on
\* screen, any other gets the service's summary or the fallback
ApplySummaries(worker, existing, answers) ==
    [i \in 1..Len(worker.deals) |->
        LET deal == worker.deals[i]
        IN IF ReusesSummary(existing, deal) THEN ReuseFrom(existing, deal)
           ELSE [deal EXCEPT !.notesSummary = SummaryFor(deal, answers, worker.notesMap),
                             !.summaryHash = deal.notesHash]]

OptionalDate(date) == IF date = NullDate THEN << >> ELSE <<date>>

\* the fields of a deal that scoring reads; daysSince and daysUntilClosing
\* are those of processRow on the reference date
ScoringView(deal, now) ==
    [stage |-> deal.stage,
     daysSince |-> <<calculateDaysSince(OptionalDate(deal.modifiedDate), now)>>,
     daysUntilClosing |-> calculateDaysUntilClosing(OptionalDate(deal.closingDate), now),
     acv |-> AcvTenths(deal.acv),
     noteContent |-> deal.noteContent,
     notesCanonical |-> deal.notesCanonical]

\* mutant: the context is built from the deals on screen and the new ones
ContextSnapshot_WithExisting(processed, existing) == existing \o processed

\* attachHealthScores(processed): buildHealthContext(deals)
ContextSnapshot(processed, existing) == processed

\* attachHealthScores with the default configuration
attachHealthScores(processed, existing, now) ==
    LET views(ds) == [i \in 1..Len(ds) |-> ScoringView(ds[i], now)]
        context == buildContext(views(ContextSnapshot(processed, existing)))
    IN [i \in 1..Len(processed) |->
          [deal |-> processed[i],
           health |-> computeDealHealthScore(ScoringView(processed[i], now), <<context>>,
                                             ScoreConfig(<< >>, << >>, << >>, << >>))]]

\* processCSVData up to the display of the deals
Pipeline(text, existing, answers, now) ==
    attachHealthScores(ApplySummaries(WorkerDeals(text), existing, answers), existing, now)

\* the deals without their scores
DealsOf(scored) == [i \in 1..Len(scored) |-> scored[i].deal]

PipelineTexts ==
    { RepeatedDeals, EarlierExport, HeaderFirst, HeaderOnly, HeaderCrLf, HeaderInexact,
      OwnerOnly, OtherCurrency }

ReferenceDays == {2, 9, 40}

\* the service is out of reach, or answers for the deal names "a" and "b"
ServiceAnswers ==
    { NoSummaries, (<<97>> :> ServiceSummary) @@ (<<98>> :> ServiceSummary) }

TwiceInit ==
    /\ MergeIdle
    /\ SummaryIdle
    /\ EdgeIdle
    /\ DiffIdle
    /\ RowIdle
    /\ ParseIdle
    /\ ScoreIdle
    /\ LoadIdle
    /\ RunIdle
    /\ IngestIdle
    /\ KeyIdle
    /\ pipelineText \in PipelineTexts
    /\ referenceDay \in ReferenceDays
    /\ onScreen \in {<< >>, DealsOf(Pipeline(EarlierExport, << >>, NoSummaries, 2))}
    /\ firstRun = << >>
    /\ secondRun = << >>
    /\ twicePc = "start"

TwiceFrame ==
    UNCHANGED <<mergeVars, summaryVars, edgeVars, diffVars, rowVars, parseVars, scoreVars,
                loadVars, runVars, ingestVars, keyVars>>

\* the first import of the text; deals that were produced replace those
\* on screen
FirstImport ==
    /\ twicePc = "start"
    /\ \E answers \in ServiceAnswers :
          firstRun' = Pipeline(pipelineText, onScreen, answers, referenceDay)
    /\ onScreen' = IF Len(firstRun') > 0 THEN DealsOf(firstRun') ELSE onScreen
    /\ twicePc' = "once"
    /\ UNCHANGED <<pipelineText, referenceDay, secondRun>>
    /\ TwiceFrame

\* the second import of the same text on the same reference date
SecondImport ==
    /\ twicePc = "once"
    /\ \E answers \in ServiceAnswers :
          secondRun' = Pipeline(pipelineText, onScreen, answers, referenceDay)
    /\ onScreen' = IF Len(secondRun') > 0 THEN DealsOf(secondRun') ELSE onScreen
    /\ twicePc' = "twice"
    /\ UNCHANGED <<pipelineText, referenceDay, firstRun>>
    /\ TwiceFrame

TwiceNext == FirstImport \/ SecondImport

\* ------------------------------------------------------------------------
\* The ingest worker's message handler and runIngestWorker on the main
\* thread. The two run on different threads: every postMessage is a step.
\* ------------------------------------------------------------------------
\* (i + 1) % 200 === 0
PROGRESS_EVERY == 200

MaxWorkerRows == 401

\* the numbers of data rows of the files
WorkerRowCounts == {0, 1, PROGRESS_EVERY, PROGRESS_EVERY + 1, MaxWorkerRows}

Progress(phase) == [type |-> "progress", phase |-> phase]

\* mutant: the result is posted after the error too
TerminalMessages_CompleteAlso(failed) ==
    IF failed THEN <<[type |-> "error"], [type |-> "complete"]>>
    ELSE <<[type |-> "complete"]>>

\* the end of the handler: postMessage({type: 'complete', ...}) at the end
\* of the try block, postMessage({type: 'error', ...}) in the catch block
TerminalMessages(failed) ==
    IF failed THEN <<[type |-> "error"]>> ELSE <<[type |-> "complete"]>>

\* postMessage(msg) for each message
Post(msgs) ==
    /\ outbox' = outbox \o msgs
    /\ posted' = posted \o msgs

\* the row after which the loop posts its next progress message, counted
\* from row i
NextProgressRow(i, n) ==
    IF (i \div PROGRESS_EVERY + 1) * PROGRESS_EVERY < n
    THEN (i \div PROGRESS_EVERY + 1) * PROGRESS_EVERY
    ELSE n

IngestFrame ==
    UNCHANGED <<mergeVars, summaryVars, edgeVars, diffVars, rowVars, parseVars, scoreVars,
                loadVars, runVars, twiceVars, keyVars>>

IngestInit ==
    /\ MergeIdle
    /\ SummaryIdle
    /\ EdgeIdle
    /\ DiffIdle
    /\ RowIdle
    /\ ParseIdle
    /\ ScoreIdle
    /\ LoadIdle
    /\ RunIdle
    /\ TwiceIdle
    /\ KeyIdle
    /\ ingestPc = "idle"
    /\ ingestRows \in WorkerRowCounts
    /\ ingestI = 0
    /\ outbox = << >>
    /\ posted = << >>
    /\ handled = << >>
    /\ promiseState = "pending"
    /\ settleCount = 0
    /\ workerTerminated = FALSE
    /\ activeWorker = FALSE

\* runIngestWorker: new Worker(...), activeWorker = worker, postMessage of
\* the request; the worker's script loads, or fails to
RunIngestWorker ==
    /\ ingestPc = "idle"
    /\ activeWorker' = TRUE
    /\ \E loaded \in BOOLEAN : ingestPc' = IF loaded THEN "received" ELSE "broken"
    /\ UNCHANGED <<ingestRows, ingestI, outbox, posted, handled, promiseState, settleCount,
                   workerTerminated>>
    /\ IngestFrame

\* self.onmessage: postMessage({type: 'progress', phase: 'Parsing CSV...'})
\* and parseCSV(csvText), which throws or returns the rows
WorkerParses ==
    /\ ingestPc = "received"
    /\ ~workerTerminated
    /\ \E threw \in BOOLEAN :
          IF threw
          THEN /\ Post(<<Progress("parsing")>> \o TerminalMessages(TRUE))
               /\ ingestPc' = "returned"
          ELSE /\ Post(<<Progress("parsing")>>)
               /\ ingestPc' = IF ingestRows = 0 THEN "processed" ELSE "processing"
    /\ UNCHANGED <<ingestRows, ingestI, handled, promiseState, settleCount,
                   workerTerminated, activeWorker>>
    /\ IngestFrame

\* the loop over the rows up to its next progress message, or up to a row
\* on which processRow or validateRow throws
WorkerProcessesRows ==
    /\ ingestPc = "processing"
    /\ ~workerTerminated
    /\ ingestI' = NextProgressRow(ingestI, ingestRows)
    /\ \E threw \in BOOLEAN :
          IF threw
          THEN /\ Post(TerminalMessages(TRUE))
               /\ ingestPc' = "returned"
          ELSE /\ Post(<<Progress("rows")>>)
               /\ ingestPc' = IF ingestI' = ingestRows THEN "processed" ELSE "processing"
    /\ UNCHANGED <<ingestRows, handled, promiseState, settleCount, workerTerminated,
                   activeWorker>>
    /\ IngestFrame

\* postMessage of the 'Deduplicating' progress and the call of
\* deduplicateDeals, which the handler awaits
WorkerDeduplicates ==
    /\ ingestPc = "processed"
    /\ ~workerTerminated
    /\ Post(<<Progress("deduplicating")>>)
    /\ ingestPc' = "awaiting"
    /\ UNCHANGED <<ingestRows, ingestI, handled, promiseState, settleCount,
                   workerTerminated, activeWorker>>
    /\ IngestFrame

\* deduplicateDeals settles: the result is posted, or the error caught
WorkerSettles ==
    /\ ingestPc = "awaiting"
    /\ ~workerTerminated
    /\ \E failed \in BOOLEAN : Post(TerminalMessages(failed))
    /\ ingestPc' = "returned"
    /\ UNCHANGED <<ingestRows, ingestI, handled, promiseState, settleCount,
                   workerTerminated, activeWorker>>
    /\ IngestFrame

\* worker.onmessage on the main thread, for the oldest message posted
WorkerOnMessage ==
    /\ outbox # << >>
    /\ ~workerTerminated
    /\ outbox' = Tail(outbox)
    /\ handled' = Append(handled, Head(outbox).type)
    /\ IF Head(outbox).type = "progress"
       THEN UNCHANGED <<promiseState, settleCount, workerTerminated, activeWorker>>
       ELSE /\ activeWorker' = FALSE
            /\ workerTerminated' = TRUE
            /\ promiseState' = IF promiseState # "pending" THEN promiseState
                               ELSE IF Head(outbox).type = "complete" THEN "resolved"
                               ELSE "rejected"
            /\ settleCount' = settleCount + 1
    /\ UNCHANGED <<ingestPc, ingestRows, ingestI, posted>>
    /\ IngestFrame

\* worker.onerror: the worker's script failed
WorkerOnError ==
    /\ ingestPc = "broken"
    /\ ~workerTerminated
    /\ activeWorker' = FALSE
    /\ workerTerminated' = TRUE
    /\ promiseState' = IF promiseState # "pending" THEN promiseState ELSE "rejected"
    /\ settleCount' = settleCount + 1
    /\ UNCHANGED <<ingestPc, ingestRows, ingestI, outbox, posted, handled>>
    /\ IngestFrame

IngestNext ==
    \/ RunIngestWorker
    \/ WorkerParses
    \/ WorkerProcessesRows
    \/ WorkerDeduplicates
    \/ WorkerSettles
    \/ WorkerOnMessage
    \/ WorkerOnError

\* ------------------------------------------------------------------------
\* makeDealKey on the names and owners of two rows
\* ------------------------------------------------------------------------
\* "a", " A", "a|", "a||b", "a  b" and "a b"
KeyNames ==
    { <<97>>, <<32, 65>>, <<97, 124>>, <<97, 124, 124, 98>>,
      <<97, 32, 32, 98>>, <<97, 32, 98>> }

\* "b", "B ", "|b", "c", "b||c" and "x" tab "y"
KeyOwners ==
    { <<98>>, <<66, 32>>, <<124, 98>>, <<99>>, <<98, 124, 124, 99>>,
      <<120, 9, 121>> }

KeyRows == {[dealName |-> n, dealOwner |-> o] : n \in KeyNames, o \in KeyOwners}

KeyInit ==
    /\ MergeIdle
    /\ SummaryIdle
    /\ EdgeIdle
    /\ DiffIdle
    /\ RowIdle
    /\ ParseIdle
    /\ ScoreIdle
    /\ LoadIdle
    /\ RunIdle
    /\ TwiceIdle
    /\ IngestIdle
    /\ keyRowA \in KeyRows
    /\ keyRowB \in KeyRows
    /\ keyA = << >>
    /\ keyB = << >>
    /\ keyPc = "rows"

KeyFrame ==
    UNCHANGED <<mergeVars, summaryVars, edgeVars, diffVars, rowVars, parseVars, scoreVars,
                loadVars, runVars, twiceVars, ingestVars>>

\* deal.dealKey = makeDealKey(deal.dealName, deal.dealOwner) for the first row
KeyOfFirstRow ==
    /\ keyPc = "rows"
    /\ keyA' = makeDealKey(keyRowA.dealName, keyRowA.dealOwner)
    /\ keyPc' = "first"
    /\ UNCHANGED <<keyRowA, keyRowB, keyB>>
    /\ KeyFrame

\* the same for the second row
KeyOfSecondRow ==
    /\ keyPc = "first"
    /\ keyB' = makeDealKey(keyRowB.dealName, keyRowB.dealOwner)
    /\ keyPc' = "both"
    /\ UNCHANGED <<keyRowA, keyRowB, keyA>>
    /\ KeyFrame

KeyNext == KeyOfFirstRow \/ KeyOfSecondRow

vars == <<mergeVars, summaryVars, edgeVars, diffVars, rowVars, parseVars, scoreVars, loadVars, runVars, twiceVars, ingestVars, keyVars>>

Init == MergeInit

Next == MergeRow \/ BuildNotes

Spec == Init /\ [][Next]_vars

SpecSummary == SummaryInit /\ [][SummaryNext]_vars

SpecEdge == EdgeInit /\ [][EdgeNext]_vars

SpecDiff == DiffInit /\ [][DiffNext]_vars

SpecRow == RowInit /\ [][RowNext]_vars

SpecParse == ParseInit /\ [][ParseNext]_vars

SpecScore == ScoreInit /\ [][ScoreNext]_vars

SpecLoad == LoadInit /\ [][LoadNext]_vars

SpecRun == RunInit /\ [][RunNext]_vars

SpecTwice == TwiceInit /\ [][TwiceNext]_vars

SpecIngest == IngestInit /\ [][IngestNext]_vars

SpecKey == KeyInit /\ [][KeyNext]_vars

\* ------------------------------------------------------------------------
\* Properties of the merge
\* ------------------------------------------------------------------------
\* the input rows sharing a deal key
Group(key) == {i \in 1..Len(deals) : deals[i].dealKey = key}

InputKeys == {deals[i].dealKey : i \in 1..Len(deals)}

\* C1: the output of deduplicateDeals holds exactly one Deal per distinct
\* deal key of the input: no two output Deals share a dealKey and no input
\* key is missing from the output.
C1_OneDealPerKey ==
    pc = "done" =>
        /\ \A i, j \in 1..Len(result) :
               result[i].dealKey = result[j].dealKey => i = j
        /\ {result[i].dealKey : i \in 1..Len(result)} = InputKeys

C1_Witness ==
    /\ pc = "done"
    /\ Len(result) = 2
    /\ \E i, j \in 1..Len(deals) : i # j /\ deals[i].dealKey = deals[j].dealKey

\* row i has a strictly later last-modified date than row j; a row with a
\* date is later than one without
StrictlyLater(i, j) ==
    /\ deals[i].modifiedDate # NullDate
    /\ \/ deals[j].modifiedDate = NullDate
       \/ deals[i].modifiedDate > deals[j].modifiedDate

\* the row of the group that no row of the group is strictly later than,
\* the first encountered among such rows
IsWinner(w, key) ==
    /\ w \in Group(key)
    /\ \A j \in Group(key) : ~StrictlyLater(j, w)
    /\ \A j \in Group(key) : j < w => StrictlyLater(w, j)

ScalarFields(d) ==
    <<d.dealName, d.dealOwner, d.stage, d.acv, d.modifiedDate, d.noteContent>>

\* C2: when several rows share a deal key, the surviving Deal's scalar
\* fields come from the row with the strictly latest last-modified date; a
\* row with a date is preferred over one without; when no row of the group
\* has a date, or the latest dates tie, the first encountered row is kept.
C2_LatestRowWins ==
    pc = "done" =>
        \A r \in 1..Len(result) :
            \E w \in 1..Len(deals) :
                /\ IsWinner(w, result[r].dealKey)
                /\ ScalarFields(result[r]) = ScalarFields(deals[w])

C2_Witness ==
    /\ pc = "done"
    /\ Len(result) = 1
    /\ Len(deals) = 3
    /\ deals[1].modifiedDate = 1
    /\ deals[2].modifiedDate = 2
    /\ deals[3].modifiedDate = 2
    /\ deals[2].stage # deals[3].stage
    /\ result[1].stage = deals[2].stage

\* the distinct trimmed non-empty notes of all the rows of a key
GroupNotes(key) == {Trim(deals[i].noteContent) : i \in Group(key)} \ {<< >>}

\* C3: the merged Deal's note history is built from the non-empty notes of
\* every row sharing its key, rows that lost the merge included: each
\* distinct trimmed non-empty note appears exactly once (in sorted order,
\* joined by the separator) and nothing else; notesCount counts them.
C3_NotesFromAllRows ==
    pc = "done" =>
        \A r \in 1..Len(result) :
            LET ns == GroupNotes(result[r].dealKey)
            IN /\ result[r].notesCount = Cardinality(ns)
               /\ result[r].notesCanonical = JoinStrings(SortStrings(ns), NOTE_SEPARATOR)

C3_Witness ==
    /\ pc = "done"
    /\ \E r \in 1..Len(result) :
          /\ result[r].notesCount = 2
          /\ Trim(result[r].noteContent) = << >>
          /\ result[r].notesCanonical = <<109>> \o NOTE_SEPARATOR \o <<110>>

\* ------------------------------------------------------------------------
\* Properties of the summary stage (SpecSummary)
\* ------------------------------------------------------------------------
\* deduplicateDeals is past its reuse decision and has not returned to idle
InSummaryStage == pc \in {"batch", "await", "done"}

\* the deal of the previous snapshot with the key of result[i], 0 if none
PreviousOf(i) == OldDealIndex(allDeals, result[i].dealKey)

\* the newly computed notes hash equals the hash stored for the same key
HashUnchanged(i) ==
    /\ PreviousOf(i) # 0
    /\ allDeals[PreviousOf(i)].summaryHash = result[i].notesHash

\* result[i] was handed to generateAISummaries in some batch
InSomeBatch(i) == \E c \in 1..Len(aiCalls) : i \in Range(aiCalls[c].batch)

KeepsStoredSummary(i) ==
    /\ result[i].notesSummary = allDeals[PreviousOf(i)].notesSummary
    /\ result[i].summaryHash = allDeals[PreviousOf(i)].summaryHash
    /\ ~InSomeBatch(i)
    /\ i \notin Range(dealsNeedingSummary)

\* C4 as stated: a deal whose new notes hash equals the stored hash keeps
\* the stored summary and is in no call; every other deal needs a summary.
C4_AsStated ==
    InSummaryStage =>
        \A i \in 1..Len(result) :
            IF HashUnchanged(i) THEN KeepsStoredSummary(i)
            ELSE i \in Range(dealsNeedingSummary)

\* C4 amended: a deal whose new notes hash equals the stored hash and whose
\* stored summary is not empty keeps the stored summary verbatim and is in
\* no batch handed to the summarization call; every other deal is placed
\* in the needs-summary set.
C4_ReuseNonEmptySummary ==
    InSummaryStage =>
        \A i \in 1..Len(result) :
            IF HashUnchanged(i) /\ allDeals[PreviousOf(i)].notesSummary # EmptyStr
            THEN KeepsStoredSummary(i)
            ELSE i \in Range(dealsNeedingSummary)

C4_Witness ==
    /\ pc = "done"
    /\ Len(result) = 2
    /\ HashUnchanged(1)
    /\ result[1].notesSummary # EmptyStr
    /\ result[1].notesSummary = allDeals[PreviousOf(1)].notesSummary
    /\ dealsNeedingSummary = <<2>>
    /\ Len(aiCalls) = 1 /\ aiCalls[1].sent

\* the trimmed non-empty notes of the input rows of a key, in input order
RECURSIVE OwnNotes(_, _)
OwnNotes(rows, key) ==
    IF rows = << >> THEN << >>
    ELSE LET n == Trim(Head(rows).noteContent)
         IN (IF Head(rows).dealKey = key /\ n # << >> THEN <<n>> ELSE << >>)
                \o OwnNotes(Tail(rows), key)

\* some settled call returned a non-empty summary under the deal's name
ReceivedSummary(i) ==
    \E c \in 1..Len(aiCalls) :
        /\ aiCalls[c].kind = "summaries"
        /\ result[i].dealName \in DOMAIN aiCalls[c].summaries
        /\ aiCalls[c].summaries[result[i].dealName] # EmptyStr

RECURSIVE ConcatBatches(_)
ConcatBatches(calls) ==
    IF calls = << >> THEN << >>
    ELSE Head(calls).batch \o ConcatBatches(Tail(calls))

\* C7: the deals needing a summary are handed over in consecutive batches
\* of at most BATCH_SIZE: the batches so far are a prefix of the needing
\* list (each deal once, none re-sent) and the whole list at the end; a
\* batch starts only after the previous one has settled.
C7_SequentialBatches ==
    /\ \A c \in 1..Len(aiCalls) :
          /\ Len(aiCalls[c].batch) >= 1
          /\ Len(aiCalls[c].batch) <= BATCH_SIZE
          /\ c < Len(aiCalls) => aiCalls[c].kind # "pending"
          /\ c < Len(aiCalls) => Len(aiCalls[c].batch) = BATCH_SIZE
    /\ Cardinality(inflight) <= 1
    /\ Len(ConcatBatches(aiCalls)) <= Len(dealsNeedingSummary)
    /\ ConcatBatches(aiCalls) =
           SubSeq(dealsNeedingSummary, 1, Len(ConcatBatches(aiCalls)))
    /\ pc = "done" => ConcatBatches(aiCalls) = dealsNeedingSummary

C7_Witness ==
    /\ pc = "done"
    /\ Len(dealsNeedingSummary) = BATCH_SIZE + 1
    /\ Len(aiCalls) = 2
    /\ aiCalls[1].kind = "error"
    /\ Len(aiCalls[1].batch) = BATCH_SIZE
    /\ aiCalls[2].kind = "summaries"
    /\ aiCalls[2].batch = <<BATCH_SIZE + 1>>

\* ------------------------------------------------------------------------
\* Properties of the edge function (SpecEdge)
\* ------------------------------------------------------------------------
\* C5: once a summary has been produced for a (deal_key, notes_hash) pair,
\* no later request containing that pair causes the model to be called for
\* it again: no pair is ever sent to the model after it was summarized.
C5_NeverRecomputed == recomputed = {}

\* ------------------------------------------------------------------------
\* Properties of diffDeals (SpecDiff)
\* ------------------------------------------------------------------------
DiffDone == diffPc = "done"

\* the baseline deals under the key of a newer deal
BaselineOf(deal) ==
    {j \in 1..Len(oldDeals) :
        makeDealKey(oldDeals[j].dealName, oldDeals[j].dealOwner)
            = makeDealKey(deal.dealName, deal.dealOwner)}

StageDiffers(old, deal) == deal.stage # old.stage

RoundedAcvDiffers(old, deal) == (deal.acv + 5) \div 10 # (old.acv + 5) \div 10

TrimmedNoteDiffers(old, deal) == Trim(deal.noteContent) # Trim(old.noteContent)

Differs(old, deal) ==
    StageDiffers(old, deal) \/ RoundedAcvDiffers(old, deal) \/ TrimmedNoteDiffers(old, deal)

StageOnly(old, deal) ==
    StageDiffers(old, deal) /\ ~RoundedAcvDiffers(old, deal) /\ ~TrimmedNoteDiffers(old, deal)

ExpectedStageLine(old, deal) ==
    <<83, 116, 97, 103, 101, 58, 32>>
        \o (IF old.stage = << >> THEN <<45>> ELSE old.stage)
        \o <<32, 8594, 32>>
        \o (IF deal.stage = << >> THEN <<45>> ELSE deal.stage)

\* the newer deals whose only difference from their baseline is the stage
StageOnlyDeals ==
    {i \in 1..Len(newDeals) :
        \E j \in BaselineOf(newDeals[i]) : StageOnly(oldDeals[j], newDeals[i])}

\* the newer deals that differ from their baseline in any compared field
DifferingDeals ==
    {i \in 1..Len(newDeals) :
        \E j \in BaselineOf(newDeals[i]) : Differs(oldDeals[j], newDeals[i])}

\* C8: after diffDeals, a newer deal is 'new' exactly when its key is absent
\* from the baseline; otherwise it is 'updated' exactly when its stage, its
\* integer-rounded ACV or its trimmed note content differs from the baseline
\* deal of the same key, and 'unchanged' otherwise. A deal that differs in
\* its stage only has the single stage line as its change list, and when it
\* is the only deal that differs, exactly one deal is counted as updated.
C8_DiffClassification ==
    DiffDone =>
        /\ \A i \in 1..Len(newDeals) :
              LET deal == newDeals[i]
                  base == BaselineOf(deal)
              IN /\ deal.changeType \in {"new", "updated", "unchanged"}
                 /\ (deal.changeType = "new") <=> (base = {})
                 /\ \A j \in base :
                       /\ (deal.changeType = "updated") <=> Differs(oldDeals[j], deal)
                       /\ (deal.changeType = "unchanged") <=> ~Differs(oldDeals[j], deal)
                       /\ StageOnly(oldDeals[j], deal) =>
                              deal.changes = <<ExpectedStageLine(oldDeals[j], deal)>>
        /\ (Cardinality(StageOnlyDeals) = 1 /\ DifferingDeals = StageOnlyDeals)
               => changesSummary.updatedCount = 1

\* a diff in which one deal moved from stage "s" to stage "t" and nothing
\* else, while another deal is unchanged although its raw amount and its raw
\* note differ from the baseline
C8_Witness ==
    /\ DiffDone
    /\ Len(newDeals) = 2
    /\ changesSummary.updatedCount = 1
    /\ changesSummary.unchangedCount = 1
    /\ \E i \in 1..2 :
          /\ newDeals[i].changeType = "updated"
          /\ newDeals[i].changes
                 = << <<83, 116, 97, 103, 101, 58, 32, 115, 32, 8594, 32, 116>> >>
    /\ \E i \in 1..2 : \E j \in BaselineOf(newDeals[i]) :
          /\ newDeals[i].changeType = "unchanged"
          /\ newDeals[i].acv # oldDeals[j].acv
          /\ newDeals[i].noteContent # oldDeals[j].noteContent

\* the deal as it was before diffDeals tagged it
Untagged(deal) == [deal EXCEPT !.changeType = "none", !.changes = << >>]

\* the newer snapshot is the baseline itself
SelfDiff ==
    /\ Len(newDeals) = Len(oldDeals)
    /\ \A i \in 1..Len(newDeals) : Untagged(newDeals[i]) = oldDeals[i]

\* C9: diffing a deduplicated snapshot of N deals against itself returns
\* new = 0, updated = 0, removed = 0 and unchanged = N, and every deal is
\* tagged 'unchanged' with an empty change list.
C9_SelfDiffUnchanged ==
    (DiffDone /\ SelfDiff) =>
        /\ changesSummary = [newCount |-> 0, updatedCount |-> 0, removedCount |-> 0,
                             unchangedCount |-> Len(oldDeals)]
        /\ \A i \in 1..Len(newDeals) :
              /\ newDeals[i].changeType = "unchanged"
              /\ newDeals[i].changes = << >>

\* a snapshot of two deals, one of them named "A" with a fractional amount,
\* has been diffed against itself
C9_Witness ==
    /\ DiffDone
    /\ SelfDiff
    /\ Len(newDeals) = 2
    /\ changesSummary.unchangedCount = 2
    /\ \E i \in 1..2 : newDeals[i].dealName = <<65>> /\ newDeals[i].acv = 1004

\* C10: the counts returned by diffDeals agree with the snapshots: removed
\* is the number of baseline keys absent from the newer snapshot, and every
\* newer deal is counted in exactly one of new, updated and unchanged, so
\* that the three add up to the size of the newer snapshot.
C10_CountsConsistent ==
    DiffDone =>
        /\ changesSummary.removedCount =
               Cardinality({makeDealKey(oldDeals[j].dealName, oldDeals[j].dealOwner) :
                               j \in 1..Len(oldDeals)}
                           \ {makeDealKey(newDeals[i].dealName, newDeals[i].dealOwner) :
                               i \in 1..Len(newDeals)})
        /\ changesSummary.newCount + changesSummary.updatedCount
               + changesSummary.unchangedCount = Len(newDeals)
        /\ changesSummary.newCount
               = Cardinality({i \in 1..Len(newDeals) : newDeals[i].changeType = "new"})
        /\ changesSummary.updatedCount
               = Cardinality({i \in 1..Len(newDeals) : newDeals[i].changeType = "updated"})
        /\ changesSummary.unchangedCount
               = Cardinality({i \in 1..Len(newDeals) : newDeals[i].changeType = "unchanged"})

\* a diff of two snapshots of equal size in which one baseline deal was
\* removed, one deal is new and one is updated
C10_Witness ==
    /\ DiffDone
    /\ Len(oldDeals) = 2
    /\ Len(newDeals) = 2
    /\ changesSummary = [newCount |-> 1, updatedCount |-> 1, removedCount |-> 1,
                         unchangedCount |-> 0]

\* the orders in which n deals can be listed
Orders(n) == {f \in [1..n -> 1..n] : \A i, j \in 1..n : f[i] = f[j] => i = j}

Reordered(seq, f) == [i \in 1..Len(seq) |-> seq[f[i]]]

\* C11: for deduplicated snapshots the result of diffDeals does not depend
\* on the order in which either snapshot lists its deals: listing the
\* baseline or the newer snapshot in any other order returns the same four
\* counts and attaches the same classification and change list to each deal
\* (every pair of reordered snapshots is itself a pair of snapshots diffed).
C11_OrderIndependent ==
    DiffDone =>
        LET untagged == [i \in 1..Len(newDeals) |-> Untagged(newDeals[i])]
        IN /\ \A f \in Orders(Len(oldDeals)) :
                 LET other == diffDeals(Reordered(oldDeals, f), untagged)
                 IN other = [tagged |-> newDeals, counts |-> changesSummary]
           /\ \A g \in Orders(Len(newDeals)) :
                 LET other == diffDeals(oldDeals, Reordered(untagged, g))
                 IN other = [tagged |-> Reordered(newDeals, g), counts |-> changesSummary]

\* two snapshots of two deals each that list the same keys in opposite
\* orders, one deal updated and one unchanged
C11_Witness ==
    /\ DiffDone
    /\ Len(oldDeals) = 2
    /\ Len(newDeals) = 2
    /\ makeDealKey(oldDeals[1].dealName, oldDeals[1].dealOwner)
           = makeDealKey(newDeals[2].dealName, newDeals[2].dealOwner)
    /\ makeDealKey(oldDeals[2].dealName, oldDeals[2].dealOwner)
           = makeDealKey(newDeals[1].dealName, newDeals[1].dealOwner)
    /\ newDeals[1].changeType = "updated"
    /\ newDeals[2].changeType = "unchanged"

\* ------------------------------------------------------------------------
\* Properties of row normalisation (SpecRow)
\* ------------------------------------------------------------------------
RowDecided == rowPc \in {"filtered", "invalid", "kept"}

\* the number of whitespace-separated tokens of a text
WhitespaceTokens(text) ==
    Cardinality({i \in 1..Len(text) :
        ~IsWs(text[i]) /\ (i = 1 \/ IsWs(text[i - 1]))})

\* C15: a normalised row is rejected by validateRow exactly when its owner
\* is empty, is longer than 100 characters or has more than 5
\* whitespace-separated tokens, or when its deal name is empty or
\* whitespace-only; every other row is accepted.
C15_AsStated ==
    rowPc \in {"invalid", "kept"} =>
        ((rowPc = "invalid") <=>
            \/ rawRow[COL_DEAL_OWNER] = << >>
            \/ Len(rawRow[COL_DEAL_OWNER]) > 100
            \/ WhitespaceTokens(rawRow[COL_DEAL_OWNER]) > 5
            \/ WhitespaceTokens(rawRow[COL_DEAL_NAME]) = 0)

\* the currency markers of an ACV text, read without regard to case
UsdMarker(text) ==
    \/ Includes(ToUpper(text), <<85, 83, 68>>)
    \/ StartsWith(ToUpper(Trim(text)), <<85, 83, 36>>)

EurMarker(text) ==
    \/ Includes(ToUpper(text), <<69, 85, 82>>)
    \/ StartsWith(Trim(text), <<8364>>)

\* C16: a row whose ACV text carries a USD or EUR marker (USD before EUR
\* before CAD) produces no deal: it is filtered out, whatever CAD marker it
\* also carries; a row with a CAD marker only or with no marker is read as
\* home currency and passes the currency filter. No deal kept comes from a
\* row in another currency.
C16_OnlyHomeCurrency ==
    RowDecided =>
        LET text == rawRow[COL_ACV]
        IN /\ (UsdMarker(text) \/ EurMarker(text)) <=> (rowPc = "filtered")
           /\ rowPc = "filtered" => rowDeal = << >>
           /\ UsdMarker(text) => parseACV(text).currency = "USD"
           /\ (EurMarker(text) /\ ~UsdMarker(text)) => parseACV(text).currency = "EUR"
           /\ (~UsdMarker(text) /\ ~EurMarker(text)) => parseACV(text).currency = "CAD"
           /\ rowDeal # << >> => ~UsdMarker(text) /\ ~EurMarker(text)

\* the row with ACV text "C$ 5 USD", which carries a CAD and a USD marker,
\* was filtered out
C16_Witness ==
    /\ rowPc = "filtered"
    /\ rawRow[COL_ACV] = <<67, 36, 32, 53, 32, 85, 83, 68>>
    /\ rawRow[COL_DEAL_OWNER] = <<120>>
    /\ rawRow[COL_DEAL_NAME] = <<97>>

WrittenInParentheses(text) ==
    \E i, j \in 1..Len(text) : i < j /\ text[i] = 40 /\ text[j] = 41

ParseCsvReturned == parsePc \in {"failed", "parsed", "complete", "aborted", "empty", "shown"}

\* a tokenized row holding both exact field texts
HoldsBothNames(row) ==
    /\ \E k \in 1..Len(row) : row[k] = <<68, 101, 97, 108, 32, 79, 119, 110, 101, 114>>
    /\ \E k \in 1..Len(row) : row[k] = <<68, 101, 97, 108, 32, 78, 97, 109, 101>>

FirstTwenty == {i \in 1..Len(tokRows) : i <= 20}

\* the rows after row h that are not a single empty field, in file order
RowsAfter(h) ==
    LET after == {i \in (h + 1)..Len(tokRows) : tokRows[i] # << << >> >>}
    IN [k \in 1..Cardinality(after) |->
           CHOOSE i \in after : Cardinality({j \in after : j < i}) = k - 1]

\* C12: parseCSV throws the no-data error exactly when the tokenizer
\* returned no rows; it throws the header-not-found error exactly when
\* there are rows and none of the first 20 holds both an exact
\* "Deal Owner" and an exact "Deal Name" field; otherwise the first such
\* row is the header, and the data rows are the rows after it, in order,
\* read under the header's column names.
C12_HeaderWindow ==
    ParseCsvReturned =>
        LET qualifying == {i \in FirstTwenty : HoldsBothNames(tokRows[i])}
        IN /\ (parseError = ERR_NO_DATA) <=> (Len(tokRows) = 0)
           /\ (parseError = ERR_NO_HEADER) <=> (Len(tokRows) > 0 /\ qualifying = {})
           /\ parseError \in {<< >>, ERR_NO_DATA, ERR_NO_HEADER}
           /\ parseError # << >> => rawRows = << >>
           /\ parseError = << >> =>
                 LET h == CHOOSE i \in qualifying : \A j \in qualifying : i <= j
                     data == RowsAfter(h)
                 IN /\ Len(rawRows) = Len(data)
                    /\ \A k \in 1..Len(data) :
                          /\ DOMAIN rawRows[k] = {tokRows[h][c] : c \in 1..Len(tokRows[h])}
                          /\ \A c \in 1..Len(tokRows[h]) :
                                (\A d \in (c + 1)..Len(tokRows[h]) :
                                     tokRows[h][d] # tokRows[h][c])
                                => rawRows[k][tokRows[h][c]] =
                                       IF c <= Len(tokRows[data[k]])
                                       THEN tokRows[data[k]][c] ELSE << >>

\* a header in the 21st row is refused
C12_Witness ==
    /\ parsePc = "failed"
    /\ parseError = ERR_NO_HEADER
    /\ Len(tokRows) > 20
    /\ HoldsBothNames(tokRows[21])

\* a header in the 20th row is accepted, with the row after it as data
C12_WitnessAccepted ==
    /\ parsePc = "parsed"
    /\ Len(tokRows) = 21
    /\ HoldsBothNames(tokRows[20])
    /\ Len(rawRows) = 1

Snapshot == <<allDeals, filteredDeals, changesSummary, localStorage, remoteStore>>

\* C13: an import whose parse threw (no rows, or no header row) ends in
\* an alert carrying the error, produces no deal, never reaches the
\* display step, and no step of it changes allDeals, filteredDeals,
\* changesSummary, the local storage or the remote store; an import that
\* yields no deal (a header without data rows included) ends in an alert
\* and changes none of them either.
C13_FailedImportFrame ==
    /\ [](parsePc \in {"failed", "aborted"} =>
              /\ parseError \in {ERR_NO_DATA, ERR_NO_HEADER}
              /\ workerDeals = << >>
              /\ rawRows = << >>)
    /\ [](parsePc = "aborted" =>
              alertMsg = <<69, 114, 114, 111, 114, 32, 112, 114, 111, 99, 101, 115, 115,
                           105, 110, 103, 32, 67, 83, 86, 58, 32>> \o parseError)
    /\ [][(parsePc \in {"failed", "aborted"}) => (parsePc' \in {"failed", "aborted"})]_vars
    /\ [][(parsePc' # "shown") => (Snapshot' = Snapshot)]_vars
    /\ [](parsePc = "empty" => workerDeals = << >> /\ alertMsg # << >>)

\* a failed import over a loaded snapshot, online
C13_Witness ==
    /\ parsePc = "aborted"
    /\ parseError = ERR_NO_HEADER
    /\ allDeals # << >>
    /\ isOnline

\* C14: while the tokenizer is between an opening and a closing quote, a
\* comma, a carriage return or a line feed is appended to the current
\* field and ends neither the field nor the row; a doubled quote appends
\* one quote character and leaves the field open; and the tokenizer
\* always has a next step that moves forward in the text, until it
\* returns its rows at the end of the text.
C14_QuotedText ==
    /\ [][(parsePc = "tokenize" /\ inQuotes /\ tokI <= Len(csvText)) =>
             /\ csvText[tokI] \in {44, 13, 10} =>
                   /\ currentField' = Append(currentField, csvText[tokI])
                   /\ currentRow' = currentRow
                   /\ tokRows' = tokRows
                   /\ inQuotes'
                   /\ tokI' = tokI + 1
             /\ (csvText[tokI] = 34 /\ tokI < Len(csvText) /\ csvText[tokI + 1] = 34) =>
                   /\ currentField' = Append(currentField, 34)
                   /\ currentRow' = currentRow
                   /\ tokRows' = tokRows
                   /\ inQuotes'
                   /\ tokI' = tokI + 2]_vars
    /\ [][(parsePc = "tokenize") =>
             \/ parsePc' = "tokenize" /\ tokI' > tokI
             \/ parsePc' \in {"failed", "parsed"} /\ tokI > Len(csvText)]_vars
    /\ [](parsePc = "tokenize" =>
             /\ tokI <= Len(csvText) + 1
             /\ ENABLED (TokenizeChar \/ TokenizeEnd))

\* a quoted field with a comma, a doubled quote and a CRLF came out whole
C14_Witness ==
    /\ parsePc = "parsed"
    /\ Len(tokRows) = 4
    /\ Len(tokRows[2]) = 3
    /\ tokRows[2][2] = <<97, 44, 34, 98, 34, 13, 10, 99>>

\* ------------------------------------------------------------------------
\* Claims about the deal health score
\* ------------------------------------------------------------------------
Scored == scorePc = "scored"

ConfiguredWeights ==
    IF scoreConfig.weights # << >> THEN scoreConfig.weights[1] ELSE defaultWeights

InZeroToHundred(v) == v[1] = "number" /\ v[2] \in 0..100

\* C18: with positive weights, the composite and the six components that
\* computeDealHealthScore returns are integers from 0 to 100.
C18_AsStated ==
    (Scored /\ \A k \in DOMAIN ConfiguredWeights : ConfiguredWeights[k] > 0) =>
        /\ InZeroToHundred(scoreResult[1].score)
        /\ \A k \in ComponentKeys : InZeroToHundred(scoreResult[1].components[k])

\* the weight configured for a component, 0 when none is
Configured(k) == IF k \in DOMAIN ConfiguredWeights THEN ConfiguredWeights[k] ELSE 0

\* every component that has a weight is a number
WeightedAreNumbers ==
    \A k \in DOMAIN ConfiguredWeights \cap ComponentKeys :
        scoreResult[1].components[k][1] = "number"

SumOfWeights ==
    Configured("stageProbability") + Configured("velocity") + Configured("activityRecency")
        + Configured("closeDateIntegrity") + Configured("acv") + Configured("notesSignal")

Weighted(k) ==
    IF Configured(k) = 0 THEN 0 ELSE Configured(k) * scoreResult[1].components[k][2]

SumOfWeighted ==
    Weighted("stageProbability") + Weighted("velocity") + Weighted("activityRecency")
        + Weighted("closeDateIntegrity") + Weighted("acv") + Weighted("notesSignal")

\* r is sum / total rounded to the nearest integer, halves up
IsRoundedAverage(r, sum, total) ==
    /\ total * (2 * r - 1) <= 2 * sum
    /\ 2 * sum < total * (2 * r + 1)

Scaled(factor) == [k \in DOMAIN ConfiguredWeights |-> factor * ConfiguredWeights[k]]

SamplesOf(stage) ==
    {i \in 1..Len(scoreDeals) :
        /\ ToLower(Trim(scoreDeals[i].stage)) = stage
        /\ scoreDeals[i].daysSince # << >>
        /\ scoreDeals[i].daysSince[1] < 999}

\* m2 is twice the median of the samples: as many samples lie at or below
\* the middle as at or above it
IsTwiceMedianOf(m2, samples) ==
    LET days(i) == scoreDeals[i].daysSince[1]
    IN \E lo \in samples, hi \in samples :
          /\ m2 = days(lo) + days(hi)
          /\ days(lo) <= days(hi)
          /\ \A i \in samples : days(i) <= days(lo) \/ days(i) >= days(hi)
          /\ 2 * Cardinality({i \in samples : days(i) <= days(lo)}) >= Cardinality(samples)
          /\ 2 * Cardinality({i \in samples : days(i) >= days(hi)}) >= Cardinality(samples)

\* the constant benchmarks: discovery 14, qualification 21, proposal 21,
\* negotiation 28, verbal commit 14
ConstantBenchmark ==
    (STAGE_DISCOVERY :> 14) @@ (STAGE_QUALIFICATION :> 21) @@ (STAGE_PROPOSAL :> 21)
        @@ (STAGE_NEGOTIATION :> 28) @@ (STAGE_VERBAL_COMMIT :> 14)

\* C20: the benchmark of a stage with at least 3 samples is the median of
\* its samples, and the benchmark of a stage with fewer than 3 samples is
\* the constant one.
C20_AsStated ==
    scorePc = "context" =>
        LET medians == scoreContext[1].medianDaysInStage
        IN \A stage \in DOMAIN ConstantBenchmark :
              IF Cardinality(SamplesOf(stage)) >= 3
              THEN stage \in DOMAIN medians /\ IsTwiceMedianOf(medians[stage], SamplesOf(stage))
              ELSE stage \in DOMAIN medians /\ medians[stage] = 2 * ConstantBenchmark[stage]

\* the per-stage benchmarks (twice the medians) that the scoring was given
Benchmarks ==
    IF scoreContext = << >> THEN [s \in {} |-> 0]
    ELSE scoreContext[1].medianDaysInStage

HasBenchmark == StageKey(scoredDeal.stage) \in DOMAIN Benchmarks

\* days in stage are known: a number other than the sentinel of
\* calculateDaysSince
DaysKnown ==
    scoredDeal.daysSince # << >> /\ scoredDeal.daysSince[1] < SENTINEL_DAYS

\* 100, 70, 40 or 10 as days / (twice / 2) is at most 0.8, 1.2, 1.5 or larger
ByRatio(days, twice) ==
    IF 10 * days <= 4 * twice THEN 100
    ELSE IF 10 * days <= 6 * twice THEN 70
    ELSE IF 4 * days <= 3 * twice THEN 40
    ELSE 10

\* C21: the velocity component is 70 when the deal's stage has no benchmark
\* or its days in stage are unknown, and otherwise 100, 70, 40 or 10 as the
\* days in stage divided by the benchmark are at most 0.8, at most 1.2, at
\* most 1.5 or larger.
C21_AsStated ==
    Scored =>
        scoreResult[1].components.velocity =
            IF ~HasBenchmark \/ ~DaysKnown THEN Number(70)
            ELSE Number(ByRatio(scoredDeal.daysSince[1],
                                Benchmarks[StageKey(scoredDeal.stage)]))

\* the keyword list of the configuration, the built-in one when it is absent
ConfiguredKeywords(supplied, builtIn) ==
    IF supplied # << >> THEN supplied[1] ELSE builtIn

\* the notes signal that the given keyword lists yield for the scored deal
NotesSignalWith(positive, negative) ==
    LET text == ToLower(scoredDeal.noteContent \o <<32>> \o scoredDeal.notesCanonical)
        found(keywords) == Cardinality({i \in 1..Len(keywords) : Includes(text, keywords[i])})
        raw == 50 + 10 * found(positive) - 10 * found(negative)
    IN IF raw < 0 THEN 0 ELSE IF raw > 100 THEN 100 ELSE raw

\* the stage map of the configuration, the built-in one when it is absent
ConfiguredStageMap ==
    IF scoreConfig.stageScoreMap # << >> THEN scoreConfig.stageScoreMap[1]
    ELSE DEFAULT_STAGE_SCORES

\* C22: scoring uses each field of the configuration that is supplied and
\* the built-in default of each field that is absent: the stage of the deal
\* is scored by the configured stage map and the notes signal counts the
\* configured positive and negative keywords.
C22_AsStated ==
    Scored =>
        /\ StageKey(scoredDeal.stage) \in DOMAIN ConfiguredStageMap =>
              scoreResult[1].components.stageProbability =
                  Number(ConfiguredStageMap[StageKey(scoredDeal.stage)])
        /\ scoreResult[1].components.notesSignal =
              Number(NotesSignalWith(
                  ConfiguredKeywords(scoreConfig.positiveKeywords, POSITIVE_KEYWORDS),
                  ConfiguredKeywords(scoreConfig.negativeKeywords, NEGATIVE_KEYWORDS)))

\* ------------------------------------------------------------------------
\* Claims about loading from persistence
\* ------------------------------------------------------------------------
\* the persisted records the last load read
LoadedSource ==
    IF loadedFrom = "local" THEN storageData[1] ELSE uploadRows

SourceDates(i) ==
    IF loadedFrom = "local"
    THEN <<storageData[1][i].modifiedDate, storageData[1][i].closingDate>>
    ELSE <<uploadRows[i].modified_date, uploadRows[i].closing_date>>

\* the derived fields of a loaded deal are those of its dates on the day
\* of the load
FreshOn(d, day) ==
    LET since == IF d.modifiedDate = << >> THEN 999
                 ELSE IF day < d.modifiedDate[1] THEN 0
                 ELSE day - d.modifiedDate[1]
        until == IF d.closingDate = << >> THEN << >> ELSE <<d.closingDate[1] - day>>
    IN /\ d.daysSince = since
       /\ d.urgency = (IF since <= 14 THEN "fresh" ELSE IF since <= 30 THEN "warning"
                       ELSE IF since <= 60 THEN "stale" ELSE "critical")
       /\ d.daysUntilClosing = until
       /\ d.closingStatus = (IF until = << >> THEN "null"
                             ELSE IF until[1] < 0 THEN "overdue"
                             ELSE IF until[1] <= 14 THEN "soon" ELSE "normal")

\* C23: every deal loaded from local storage or from the remote store has
\* the dates that were stored and the days since modification, urgency, days
\* until closing and closing status of those dates on the day of the load,
\* whatever values of these fields were persisted.
C23_RecomputedOnLoad ==
    loadedFrom # "none" =>
        /\ Len(loadedDeals) = Len(LoadedSource)
        /\ \A i \in 1..Len(loadedDeals) :
              /\ <<loadedDeals[i].modifiedDate, loadedDeals[i].closingDate>> = SourceDates(i)
              /\ FreshOn(loadedDeals[i], loadedOn)

\* a load from local storage whose persisted urgency and closing status
\* were out of date
C23_Witness ==
    /\ loadedFrom = "local"
    /\ \E i \in 1..Len(loadedDeals) :
          /\ storageData[1][i].urgency # loadedDeals[i].urgency
          /\ storageData[1][i].closingStatus # loadedDeals[i].closingStatus
          /\ storageData[1][i].daysSince # loadedDeals[i].daysSince

\* ------------------------------------------------------------------------
\* Claims about concurrent runs
\* ------------------------------------------------------------------------
\* a run is in flight while it awaits
InFlight(r) == runs[r].pc \in {"primary", "compare", "worker"}

Displayed == <<allDeals, filteredDeals, changesSummary, localStorage>>

\* the run that displays its result in this step
Applies(r) == runs[r].pc # "applied" /\ runs'[r].pc = "applied"

\* C24: once a newer snapshot load or import has started, a run that was
\* in flight before it never writes allDeals, filteredDeals, the changes
\* summary or local storage: only the newest run does.
C24_AsStated ==
    [][/\ \A r \in DOMAIN runs : Applies(r) => (r = Len(runs))
       /\ (Displayed' # Displayed) => (\E r \in DOMAIN runs : Applies(r) /\ r = Len(runs))]_vars

\* C27: while a snapshot load started by handleDateSelection is in flight,
\* the loading overlay is shown.
C27_AsStated ==
    (\E r \in DOMAIN runs : runs[r].kind = "select" /\ InFlight(r)) =>
        loadingOverlay = "shown"

\* ------------------------------------------------------------------------
\* Claims about repeated imports
\* ------------------------------------------------------------------------
\* what the claim compares: key, canonical notes, note hash and scores
Compared(scored) ==
    [i \in 1..Len(scored) |->
        [dealKey |-> scored[i].deal.dealKey,
         notesCanonical |-> scored[i].deal.notesCanonical,
         notesCount |-> scored[i].deal.notesCount,
         notesHash |-> scored[i].deal.notesHash,
         score |-> scored[i].health.score,
         components |-> scored[i].health.components]]

\* C25: two runs of the ingestion pipeline on the same text with the same
\* reference date yield the same deals: the same deal keys, canonical
\* notes, note hashes and scores, whatever was on screen before each run
\* and whatever the summarization service answered.
C25_SameDealsTwice ==
    twicePc = "twice" => Compared(firstRun) = Compared(secondRun)

\* both runs merged the four rows into two deals; the first run started
\* from another snapshot and got its summaries from the service, the second
\* started from the result of the first
C25_Witness ==
    /\ twicePc = "twice"
    /\ pipelineText = RepeatedDeals
    /\ Len(firstRun) = 2
    /\ Len(secondRun) = 2
    /\ firstRun[1].deal.notesCount = 2
    /\ firstRun[1].deal.notesSummary = ServiceSummary
    /\ firstRun[1].health.score # firstRun[2].health.score
    /\ onScreen = DealsOf(secondRun)

\* ------------------------------------------------------------------------
\* C26: the ingest worker's messages and the settling of the promise
\* ------------------------------------------------------------------------
Terminal(type) == type \in {"complete", "error"}

\* the places of the terminal messages in a sequence of messages
TerminalsIn(msgs) == {i \in 1..Len(msgs) : Terminal(msgs[i].type)}

\* the terminal messages the main thread has handled
TerminalsHandled == {i \in 1..Len(handled) : Terminal(handled[i])}

\* C26: for the request it receives the worker posts progress messages and
\* then one terminal message, 'complete' or 'error', and nothing after it:
\* only the last message posted is terminal, and a handler that has
\* returned has posted one. On that message runIngestWorker settles its
\* promise, once, resolved for 'complete' and rejected for 'error', and
\* terminates the worker; the promise is settled once at most.
C26_OneTerminalMessage ==
    /\ TerminalsIn(posted) \subseteq {Len(posted)}
    /\ (ingestPc = "returned") => (TerminalsIn(posted) = {Len(posted)} /\ posted # << >>)
    /\ (ingestPc \in {"received", "processing", "processed", "awaiting"})
           => (TerminalsIn(posted) = {})
    /\ settleCount <= 1
    /\ (TerminalsHandled # {}) =>
           /\ TerminalsHandled = {Len(handled)}
           /\ settleCount = 1
           /\ workerTerminated
           /\ ~activeWorker
           /\ promiseState = (IF handled[Len(handled)] = "complete"
                              THEN "resolved" ELSE "rejected")
    /\ (settleCount = 1 /\ ingestPc # "broken") => (TerminalsHandled # {})
    /\ (promiseState = "pending") <=> (settleCount = 0)

\* a file of more than 200 rows went through: progress messages for the
\* parsing, the rows (twice) and the deduplication, then 'complete', on
\* which the promise was resolved and the worker terminated
C26_Witness ==
    /\ ingestRows > PROGRESS_EVERY
    /\ handled = <<"progress", "progress", "progress", "progress", "complete">>
    /\ promiseState = "resolved"
    /\ settleCount = 1
    /\ workerTerminated

\* ------------------------------------------------------------------------
\* C28: whose notes a deal's summary was generated from
\* ------------------------------------------------------------------------
\* the summaries that come from a deal's own notes: the service's text for
\* the entry sent for the deal, or the local fallback
OwnSummaries(deal, nm) ==
    {AiSummary([dealName |-> deal.dealName,
                notes |-> DistinctInOrder(nm[deal.dealKey])]),
     generateFallbackSummary(nm[deal.dealKey])}

\* C28 (as stated; refuted): when deduplicateDeals is done, every deal that
\* needed a summary carries one generated from its own notes, also when
\* another deal of the import has the same name under another owner.
C28_AsStated ==
    (pc = "done") =>
        \A i \in Range(dealsNeedingSummary) :
            result[i].notesSummary \in OwnSummaries(result[i], notesMap)

\* ------------------------------------------------------------------------
\* C29: which rows share a deal key
\* ------------------------------------------------------------------------
SameNormalizedPair ==
    /\ normalizeString(keyRowA.dealName) = normalizeString(keyRowB.dealName)
    /\ normalizeString(keyRowA.dealOwner) = normalizeString(keyRowB.dealOwner)

\* s contains the character of the separator, "|"
HasBar(s) == \E i \in 1..Len(s) : s[i] = 124

\* C29 (as stated; refuted): two rows have the same key exactly when their
\* normalized names are equal and their normalized owners are equal.
C29_AsStated ==
    (keyPc = "both") => ((keyA = keyB) <=> SameNormalizedPair)

\* C29 (amended): rows whose normalized names and normalized owners are
\* equal have the same key; rows with the same key have equal normalized
\* names and owners whenever neither name, or neither owner, contains "|".
C29_KeyIdentity ==
    (keyPc = "both") =>
        /\ SameNormalizedPair => (keyA = keyB)
        /\ (/\ keyA = keyB
            /\ \/ ~HasBar(keyRowA.dealName) /\ ~HasBar(keyRowB.dealName)
               \/ ~HasBar(keyRowA.dealOwner) /\ ~HasBar(keyRowB.dealOwner))
              => SameNormalizedPair

\* two rows written differently (" A" and "a", "B " and "b") got one key,
\* and the rows "a|" of "b" and "a" of "|b" got one key too
C29_Witness ==
    /\ keyPc = "both"
    /\ keyA = keyB
    /\ keyRowA # keyRowB
    /\ SameNormalizedPair
    /\ keyRowA.dealName = <<32, 65>>
    /\ keyRowB.dealOwner = <<66, 32>>

\* ------------------------------------------------------------------------
\* C30: the notes fields as a function of the set of notes
\* ------------------------------------------------------------------------
\* what the merged deal is given for the raw notes collected for its key
NotesFields(rawNotes) ==
    <<buildNotesCanonical(rawNotes).canonical,
      buildNotesCanonical(rawNotes).count,
      sha256Hex(buildNotesCanonical(rawNotes).canonical)>>

\* the listings of a set of notes in any order, with repetitions, of up to
\* one entry more than there are rows
Listings(ns) == {l \in SeqsUpTo(ns, MaxRows + 1) : Range(l) = ns}

\* C30: for the rows sharing a deal key, the merged Deal's notesCanonical,
\* notesCount and notesHash depend only on the set of trimmed non-empty
\* notes of those rows: any listing of that set, in whatever order and with
\* whatever repetitions, gives the same three values.
C30_NotesOfTheSet ==
    (pc = "done") =>
        \A r \in 1..Len(result) :
            \A l \in Listings(GroupNotes(result[r].dealKey)) :
                NotesFields(l) =
                    <<result[r].notesCanonical, result[r].notesCount, result[r].notesHash>>

\* three rows of one key with the notes "n", "m", "n" in that order were
\* merged: the canonical text is "m", separator, "n" and the count is 2
C30_Witness ==
    /\ pc = "done"
    /\ Len(deals) = 3
    /\ \A i \in 1..3 : deals[i].dealKey = deals[1].dealKey
    /\ Trim(deals[1].noteContent) = <<110>>
    /\ Trim(deals[2].noteContent) = <<109>>
    /\ Trim(deals[3].noteContent) = <<110>>
    /\ Len(result) = 1
    /\ result[1].notesCount = 2
    /\ result[1].notesCanonical = <<109>> \o NOTE_SEPARATOR \o <<110>>
    /\ result[1].notesHash = sha256Hex(<<109>> \o NOTE_SEPARATOR \o <<110>>)

====
